---- MODULE Spec2Model ----
(***************************************************************************)
(* A model of the timesheet dashboard: the per-session productivity        *)
(* metrics of the session details modal, the weekly statistics of the      *)
(* timesheet view and its week navigation, the monthly calendar, the       *)
(* analytics ranking, the role routing of the application shell, and the   *)
(* asynchronous fetches and approvals of the weekly and monthly views.     *)
(*                                                                         *)
(* JavaScript numbers are IEEE-754 binary64 values.  Minute counts are     *)
(* small integers (exact in binary64) and are modelled as integers; the    *)
(* result of a division or of a multiplication is modelled as a binary64   *)
(* value, rounded to nearest-even as the hardware rounds it, so that       *)
(* Math.round sees the value the program sees.                             *)
(***************************************************************************)
EXTENDS Integers, Sequences, FiniteSets, TLC

VARIABLES
    docs,              \* the store's answer to the sessions query of the week
    selectedUser,      \* TimesheetManagement: useState<string>("")
    sessions,          \* TimesheetManagement: useState<TimeSession[]>([])
    stats,             \* TimesheetManagement: useMemo stats
    rowRates,          \* TimesheetManagement: the duration column, per row
    selectedSession,   \* TimesheetManagement: useState<TimeSession | null>
    showSessionModal,  \* TimesheetManagement: useState(false)
    metrics,           \* SessionDetailsModal: calculateProductivityMetrics()
    tz,                \* the browser's time zone: local time = UTC + tz hours
    now,               \* the clock: new Date(), in hours since the epoch (UTC)
    currentWeek,       \* TimesheetManagement: useState(new Date())
    weekCalculations,  \* TimesheetManagement: useMemo weekCalculations
    queryRange,        \* fetchUserSessions: the date range of the last query
    store,             \* the "sessions" collection of the document store
    monthUser,         \* MonthlyTimesheet: useState<string>("") selectedUser
    currentMonth,      \* MonthlyTimesheet: useState(new Date())
    monthSessions,     \* MonthlyTimesheet: useState<TimeSession[]>([])
    calendarData,      \* MonthlyTimesheet: useMemo calendarData
    monthlyStats,      \* MonthlyTimesheet: useMemo monthlyStats
    isCurrentMonth,    \* MonthlyTimesheet: useMemo isCurrentMonth
    canNavigateNext,   \* MonthlyTimesheet: useMemo canNavigateNext
    user,              \* useAuth(): the signed-in user, or null
    loading,           \* useAuth(): the authentication state is being resolved
    activeTab,         \* AppContent: useState('')
    tabEffect,         \* AppContent: the effect on [user] has yet to run
    usersStore,        \* the "users" collection of the document store
    users,             \* TimesheetManagement: useState<User[]>([])
    weekLoading,       \* TimesheetManagement: useState(true) loading
    monthUsers,        \* MonthlyTimesheet: useState<User[]>([]) users
    monthLoading,      \* MonthlyTimesheet: useState(true) loading
    reportUsers,       \* AnalyticsReports: useState<User[]>([]) users
    reportLoading,     \* AnalyticsReports: useState(true) loading
    selectedUsers,     \* AnalyticsReports: useState<string[]>([])
    dateRange,         \* AnalyticsReports: useState<DateRange>
    reportSessions,    \* AnalyticsReports: useState<TimeSession[]>([]) sessions
    topPerformers,     \* AnalyticsReports: useMemo topPerformers
    inflight,          \* TimesheetManagement: fetchUserSessions calls awaiting the store
    monthInflight,     \* MonthlyTimesheet: fetchMonthlyUserSessions calls awaiting the store
    showDisapprovalForm, \* SessionDetailsModal: useState(false)
    disapprovalReason, \* SessionDetailsModal: useState(''), as a sequence of characters
    approving,         \* SessionDetailsModal: useState(false)
    disapproving,      \* SessionDetailsModal: useState(false)
    toasts,            \* react-hot-toast: the toasts of the last step that showed any
    authUser,          \* the identity provider: the uid of its current user, or ""
    authPending,       \* AuthProvider: the auth-state callbacks awaiting getDoc
    managedUsers,      \* UserManagement: useState<User[]>([]) users
    usersLoading,      \* UserManagement: useState(true) loading
    editUser,          \* UserManagement: useState<User | null>(null) selectedUser
    formData,          \* EditUserModal: useState formData
    userInflight,      \* UserManagement: handleUpdateUser calls awaiting the store
    cache,             \* memoize: the Map, as its entries in insertion order
    maxSize,           \* memoize: the size limit given to it
    fnCalled,          \* memoize: the last call of the memoized function called fn
    lastResult,        \* memoize: what the last call returned
    recency,           \* memoize: the keys in the order of their last use
    timeout,           \* debounce: the pending timer, or null
    wait,              \* debounce: the delay given to it
    timerClock,        \* debounce: the time, in units of the timer
    debounceCalls,     \* debounce: the calls of the debounced function so far
    invoked            \* debounce: the invocations of func so far

vars == <<docs, selectedUser, sessions, stats, rowRates, selectedSession,
          showSessionModal, metrics, tz, now, currentWeek, weekCalculations,
          queryRange, store, monthUser, currentMonth, monthSessions,
          calendarData, monthlyStats, isCurrentMonth, canNavigateNext,
          user, loading, activeTab, tabEffect, usersStore, users, weekLoading, monthUsers,
          monthLoading, reportUsers, reportLoading, selectedUsers, dateRange,
          reportSessions, topPerformers, inflight, monthInflight,
          showDisapprovalForm, disapprovalReason, approving, disapproving,
          toasts, authUser, authPending, managedUsers, usersLoading, editUser,
          formData, userInflight, cache, maxSize, fnCalled, lastResult,
          recency, timeout, wait, timerClock, debounceCalls, invoked>>

sessionVars == <<docs, selectedUser, sessions, stats, rowRates, selectedSession,
                 showSessionModal, metrics>>

weekVars == <<tz, now, currentWeek, weekCalculations, queryRange>>

monthVars == <<monthUser, currentMonth, monthSessions, calendarData,
               monthlyStats, isCurrentMonth, canNavigateNext>>

appVars == <<user, loading, activeTab, tabEffect, usersStore>>

listVars == <<users, weekLoading, monthUsers, monthLoading>>

analyticsVars == <<reportUsers, reportLoading, selectedUsers, dateRange,
                   reportSessions, topPerformers>>

fetchVars == <<inflight, monthInflight>>

\* the state of the details modal, and the toasts
modalVars == <<showDisapprovalForm, disapprovalReason, approving, disapproving>>

\* the identity provider and the callbacks of AuthProvider
authVars == <<authUser, authPending>>

\* the state of the user management view
adminVars == <<managedUsers, usersLoading, editUser, formData, userInflight>>

\* the state of a memoized and of a debounced function
memoVars == <<cache, maxSize, fnCalled, lastResult, recency>>

debounceVars == <<timeout, wait, timerClock, debounceCalls, invoked>>

utilVars == <<memoVars, debounceVars>>

\* the state outside the weekly view and its modal
outerVars == <<authVars, adminVars, utilVars>>

\* what a render of AppContent leaves alone
stillVars == <<modalVars, toasts, authVars, utilVars>>

extVars == <<stillVars, adminVars>>

\* the state outside the weekly and the monthly view
laterVars == <<appVars, listVars, analyticsVars, fetchVars, extVars>>

\* the state outside the weekly view
otherVars == <<store, monthVars, laterVars>>

(***************************************************************************)
(* IEEE-754 binary64 arithmetic                                            *)
(* A finite non-zero number is sgn * int(man) * 2^exp, man a sequence of   *)
(* MantissaBits bits, most significant first, man[1] = 1.                  *)
(***************************************************************************)
MantissaBits == 53

Abs(n) == IF n < 0 THEN -n ELSE n

Sign(n) == IF n < 0 THEN -1 ELSE IF n > 0 THEN 1 ELSE 0

ChunkBits == 16

\* the integer a bit string spells, most significant bit first
RECURSIVE BitsToInt(_)
BitsToInt(bits) ==
    IF Len(bits) = 0 THEN 0
    ELSE IF Len(bits) = 1 THEN bits[1]
    ELSE LET h == Len(bits) \div 2
         IN  BitsToInt(SubSeq(bits, 1, h)) * 2^(Len(bits) - h)
             + BitsToInt(SubSeq(bits, h + 1, Len(bits)))

BitLength(n) == IF n = 0 THEN 0 ELSE CHOOSE k \in 1..31 : 2^(k-1) <= n /\ (k = 31 \/ n < 2^k)

\* the w low bits of n, most significant first
IntToBitsW(n, w) == [i \in 1..w |-> (n \div 2^(w - i)) % 2]

IntToBits(n) == IntToBitsW(n, BitLength(n))

Zeros(n) == [i \in 1..n |-> 0]

AnyOne(bits) == \E i \in 1..Len(bits) : bits[i] = 1

StripZeros(bits) ==
    IF ~AnyOne(bits) THEN <<>>
    ELSE LET f == CHOOSE i \in 1..Len(bits) :
                      bits[i] = 1 /\ \A j \in 1..(i - 1) : bits[j] = 0
         IN  SubSeq(bits, f, Len(bits))

\* a bit string as ChunkBits-bit digits (zeros added in front), and back
ChunksOf(bits) ==
    LET n      == (Len(bits) + ChunkBits - 1) \div ChunkBits
        padded == Zeros(n * ChunkBits - Len(bits)) \o bits
    IN  [k \in 1..n |->
            BitsToInt(SubSeq(padded, ChunkBits * (k - 1) + 1, ChunkBits * k))]

BitsOfChunks(cs) ==
    [i \in 1..(ChunkBits * Len(cs)) |->
        (cs[(i - 1) \div ChunkBits + 1]
            \div 2^(ChunkBits - 1 - ((i - 1) % ChunkBits))) % 2]

FZero == [kind |-> "fin", sgn |-> 0, man |-> <<>>, exp |-> 0]

FNaN == [kind |-> "nan", sgn |-> 0, man |-> <<>>, exp |-> 0]

FInf(s) == [kind |-> "inf", sgn |-> s, man |-> <<>>, exp |-> 0]

\* bits + 1, same length; all ones wrap to all zeros (the caller renormalises)
Increment(bits) ==
    LET zs == {i \in 1..Len(bits) : bits[i] = 0}
        z  == IF zs = {} THEN 0 ELSE CHOOSE i \in zs : \A j \in zs : j <= i
    IN  [i \in 1..Len(bits) |-> IF i < z THEN bits[i] ELSE IF i = z THEN 1 ELSE 0]

\* Round the exact value (int(bits) + a fraction that is non-zero iff sticky)
\* * 2^e, bits[1] = 1 and Len(bits) >= MantissaBits, to nearest, ties to even.
RoundBits(s, bits, sticky, e) ==
    LET keep  == SubSeq(bits, 1, MantissaBits)
        drop  == Len(bits) - MantissaBits
        guard == IF drop > 0 THEN bits[MantissaBits + 1] ELSE 0
        tail  == sticky \/ AnyOne(SubSeq(bits, MantissaBits + 2, Len(bits)))
        up    == guard = 1 /\ (tail \/ keep[MantissaBits] = 1)
        inc   == Increment(keep)
    IN  IF ~up THEN [kind |-> "fin", sgn |-> s, man |-> keep, exp |-> e + drop]
        ELSE IF inc[1] = 1
             THEN [kind |-> "fin", sgn |-> s, man |-> inc, exp |-> e + drop]
             ELSE [kind |-> "fin", sgn |-> s,
                   man |-> <<1>> \o SubSeq(inc, 1, MantissaBits - 1),
                   exp |-> e + drop + 1]

\* Long division of the digits cs (most significant first) by d, 0 < d and
\* d * 2^ChunkBits < 2^31: the quotient's digits and the remainder.
RECURSIVE DivChunks(_, _, _)
DivChunks(cs, r, d) ==
    IF Len(cs) = 0 THEN [q |-> <<>>, rem |-> r]
    ELSE LET v    == r * 2^ChunkBits + cs[1]
             rest == DivChunks(SubSeq(cs, 2, Len(cs)), v % d, d)
         IN  [q |-> <<v \div d>> \o rest.q, rem |-> rest.rem]

\* the digits cs times c plus carry, 0 < c and c * 2^ChunkBits < 2^31
RECURSIVE MulChunks(_, _, _)
MulChunks(cs, c, carry) ==
    IF Len(cs) = 0 THEN <<carry>>
    ELSE LET v == cs[Len(cs)] * c + carry
         IN  Append(MulChunks(SubSeq(cs, 1, Len(cs) - 1), c, v \div 2^ChunkBits),
                    v % 2^ChunkBits)

\* the zero digits appended to a dividend: the quotient then has more than
\* MantissaBits + 1 significant bits for every divisor below 2^(ChunkBits - 1)
GuardChunks == 5

\* x / d for a binary64 x and an integer d (exact in binary64)
FDiv(x, d) ==
    IF x.kind = "nan" THEN FNaN
    ELSE IF x.kind = "inf" THEN FInf(x.sgn * (IF d < 0 THEN -1 ELSE 1))
    ELSE IF d = 0 THEN (IF x.sgn = 0 THEN FNaN ELSE FInf(x.sgn))
    ELSE IF x.sgn = 0 THEN FZero
    ELSE LET res == DivChunks(ChunksOf(x.man) \o Zeros(GuardChunks), 0, Abs(d))
         IN  RoundBits(x.sgn * Sign(d), StripZeros(BitsOfChunks(res.q)),
                       res.rem # 0, x.exp - GuardChunks * ChunkBits)

\* the binary64 value of an integer below 2^31
FromInt(n) ==
    IF n = 0 THEN FZero
    ELSE LET bits == IntToBits(Abs(n))
         IN  [kind |-> "fin", sgn |-> Sign(n),
              man |-> bits \o Zeros(MantissaBits - Len(bits)),
              exp |-> Len(bits) - MantissaBits]

\* a / b for integers a and b
NumDiv(a, b) == FDiv(FromInt(a), b)

\* x * c for a binary64 x and an integer c (exact in binary64)
FMul(x, c) ==
    IF x.kind = "nan" THEN FNaN
    ELSE IF x.kind = "inf" THEN (IF c = 0 THEN FNaN ELSE FInf(x.sgn * Sign(c)))
    ELSE IF x.sgn = 0 \/ c = 0 THEN FZero
    ELSE RoundBits(x.sgn * Sign(c),
                   StripZeros(BitsOfChunks(MulChunks(ChunksOf(x.man), Abs(c), 0))),
                   FALSE, x.exp)

\* digits cs with zero digits in front, n digits in all
PadChunks(cs, n) == Zeros(n - Len(cs)) \o cs

\* a < b for two digit strings of the same length
LessChunks(a, b) ==
    \E i \in 1..Len(a) : a[i] < b[i] /\ \A j \in 1..(i - 1) : a[j] = b[j]

\* a + b + carry for two digit strings of the same length, one digit longer
RECURSIVE AddChunks(_, _, _)
AddChunks(a, b, carry) ==
    IF Len(a) = 0 THEN <<carry>>
    ELSE LET v == a[Len(a)] + b[Len(b)] + carry
         IN  Append(AddChunks(SubSeq(a, 1, Len(a) - 1), SubSeq(b, 1, Len(b) - 1),
                              v \div 2^ChunkBits),
                    v % 2^ChunkBits)

\* a - b - borrow for two digit strings of the same length, a >= b + borrow
RECURSIVE SubChunks(_, _, _)
SubChunks(a, b, borrow) ==
    IF Len(a) = 0 THEN <<>>
    ELSE LET v == 2^ChunkBits + a[Len(a)] - b[Len(b)] - borrow
         IN  Append(SubChunks(SubSeq(a, 1, Len(a) - 1), SubSeq(b, 1, Len(b) - 1),
                              IF v < 2^ChunkBits THEN 1 ELSE 0),
                    v % 2^ChunkBits)

\* the value int(bits) * 2^e (plus a fraction iff sticky), rounded to binary64
Normalised(s, bits, sticky, e) ==
    IF Len(bits) = 0 THEN FZero
    ELSE IF Len(bits) >= MantissaBits THEN RoundBits(s, bits, sticky, e)
    ELSE RoundBits(s, bits \o Zeros(MantissaBits - Len(bits)), sticky,
                   e - (MantissaBits - Len(bits)))

\* x + y for two binary64 values
FAdd(x, y) ==
    IF x.kind = "nan" \/ y.kind = "nan" THEN FNaN
    ELSE IF x.kind = "inf" /\ y.kind = "inf"
         THEN (IF x.sgn = y.sgn THEN x ELSE FNaN)
    ELSE IF x.kind = "inf" THEN x
    ELSE IF y.kind = "inf" THEN y
    ELSE IF x.sgn = 0 THEN y
    ELSE IF y.sgn = 0 THEN x
    ELSE LET e  == IF x.exp <= y.exp THEN x.exp ELSE y.exp
             xc == ChunksOf(x.man \o Zeros(x.exp - e))
             yc == ChunksOf(y.man \o Zeros(y.exp - e))
             n  == IF Len(xc) >= Len(yc) THEN Len(xc) ELSE Len(yc)
             xa == PadChunks(xc, n)
             ya == PadChunks(yc, n)
         IN  IF x.sgn = y.sgn
             THEN Normalised(x.sgn, StripZeros(BitsOfChunks(AddChunks(xa, ya, 0))),
                             FALSE, e)
             ELSE IF LessChunks(xa, ya)
             THEN Normalised(y.sgn, StripZeros(BitsOfChunks(SubChunks(ya, xa, 0))),
                             FALSE, e)
             ELSE Normalised(x.sgn, StripZeros(BitsOfChunks(SubChunks(xa, ya, 0))),
                             FALSE, e)

\* the quotient of two mantissas is computed a digit of QuotientBits bits at
\* a time, QuotientDigits digits after the leading bit
QuotientBits == 15

QuotientDigits == 4

\* the digit strings of the division are all DivisionChunks digits long
DivisionChunks == 6

\* the largest q below 2^(bit + 1) above the digit found so far with
\* d * q <= r, found from its top bit down
RECURSIVE QuotientDigit(_, _, _, _)
QuotientDigit(r, d, q, bit) ==
    IF bit < 0 THEN q
    ELSE LET c == q + 2^bit
         IN  IF LessChunks(r, MulChunks(d, c, 0))
             THEN QuotientDigit(r, d, q, bit - 1)
             ELSE QuotientDigit(r, d, c, bit - 1)

\* r shifted left by QuotientBits bits
ShiftChunks(r) ==
    LET cs == ChunksOf(BitsOfChunks(r) \o Zeros(QuotientBits))
    IN  SubSeq(cs, Len(cs) - DivisionChunks + 1, Len(cs))

\* k more digits of the quotient of the remainder r by d, and what remains
RECURSIVE DivDigits(_, _, _)
DivDigits(r, d, k) ==
    IF k = 0 THEN [q |-> <<>>, rem |-> r]
    ELSE LET shifted == ShiftChunks(r)
             digit   == QuotientDigit(shifted, d, 0, QuotientBits - 1)
             rest    == DivDigits(SubChunks(shifted, MulChunks(d, digit, 0), 0), d, k - 1)
         IN  [q |-> IntToBitsW(digit, QuotientBits) \o rest.q, rem |-> rest.rem]

\* x / y for two binary64 values
FDivF(x, y) ==
    IF x.kind = "nan" \/ y.kind = "nan" THEN FNaN
    ELSE IF x.kind = "inf" THEN (IF y.kind = "inf" THEN FNaN
                                 ELSE FInf(x.sgn * (IF y.sgn < 0 THEN -1 ELSE 1)))
    ELSE IF y.kind = "inf" THEN FZero
    ELSE IF y.sgn = 0 THEN (IF x.sgn = 0 THEN FNaN ELSE FInf(x.sgn))
    ELSE IF x.sgn = 0 THEN FZero
    ELSE LET xm    == PadChunks(ChunksOf(x.man), DivisionChunks)
             ym    == PadChunks(ChunksOf(y.man), DivisionChunks)
             d     == SubSeq(ym, 2, DivisionChunks)
             first == IF LessChunks(xm, ym) THEN 0 ELSE 1
             r     == IF first = 1 THEN SubChunks(xm, ym, 0) ELSE xm
             res   == DivDigits(r, d, QuotientDigits)
         IN  RoundBits(x.sgn * y.sgn, StripZeros(<<first>> \o res.q),
                       AnyOne(BitsOfChunks(res.rem)),
                       x.exp - y.exp - QuotientBits * QuotientDigits)

\* Math.round: the integer nearest to x, a tie going towards +Infinity.
\* NaN stays NaN (the result is then not an integer: modelled as the string).
MathRound(x) ==
    IF x.kind # "fin" THEN "NaN"
    ELSE IF x.sgn = 0 THEN 0
    ELSE LET nfrac == IF x.exp >= 0 THEN 0 ELSE 0 - x.exp
             nint  == IF nfrac >= MantissaBits THEN 0 ELSE MantissaBits - nfrac
             whole == BitsToInt(SubSeq(x.man, 1, nint))
             lead  == Zeros(nfrac - MantissaBits)
             frac  == IF nfrac >= MantissaBits THEN lead \o x.man
                      ELSE SubSeq(x.man, nint + 1, MantissaBits)
             half  == frac # <<>> /\ frac[1] = 1
             above == half /\ AnyOne(SubSeq(frac, 2, Len(frac)))
         IN  IF x.sgn > 0
             THEN whole + (IF half THEN 1 ELSE 0)
             ELSE -(whole + (IF above THEN 1 ELSE 0))

(***************************************************************************)
(* Date: an instant is a count of hours since 1970-01-01T00:00Z.  The      *)
(* local fields (getDate, getDay, setDate, toDateString) are those of the  *)
(* instant shifted by tz; toISOString is in UTC.                           *)
(***************************************************************************)
\* the proleptic Gregorian date of a day number (day 0 = 1970-01-01)
\* (era: 400 years; doe, yoe, doy: the day of the era, the year of the era
\* and the day of the year, years starting in March; mp: that year's month)
CivilOfMonth(era, yoe, m, d) ==
    [y |-> yoe + era * 400 + (IF m <= 2 THEN 1 ELSE 0), m |-> m, d |-> d]

CivilOfDoy(era, yoe, doy, mp) ==
    CivilOfMonth(era, yoe, IF mp < 10 THEN mp + 3 ELSE mp - 9,
                 doy - (153 * mp + 2) \div 5 + 1)

CivilOfYoe(era, doe, yoe) ==
    CivilOfDoy(era, yoe, doe - (365 * yoe + yoe \div 4 - yoe \div 100),
               (5 * (doe - (365 * yoe + yoe \div 4 - yoe \div 100)) + 2) \div 153)

CivilOfDoe(era, doe) ==
    CivilOfYoe(era, doe,
               (doe - doe \div 1460 + doe \div 36524 - doe \div 146096) \div 365)

CivilFromDays(z0) ==
    CivilOfDoe((z0 + 719468) \div 146097,
               (z0 + 719468) - ((z0 + 719468) \div 146097) * 146097)

DaysOfEra(era, yoe, doy) ==
    era * 146097 + (yoe * 365 + yoe \div 4 - yoe \div 100 + doy) - 719468

DaysOfMarchYear(y, m, d) ==
    DaysOfEra(y \div 400, y - (y \div 400) * 400,
              (153 * (IF m > 2 THEN m - 3 ELSE m + 9) + 2) \div 5 + d - 1)

DaysFromCivil(y0, m, d) == DaysOfMarchYear(IF m <= 2 THEN y0 - 1 ELSE y0, m, d)

LocalDay(date) == (date + tz) \div 24

TimeOfDay(date) == (date + tz) % 24

\* Date.prototype.getDay: 0 = Sunday (1970-01-01 was a Thursday)
getDay(date) == (LocalDay(date) + 4) % 7

\* Date.prototype.getDate: the day of the month
getDate(date) == CivilFromDays(LocalDay(date)).d

\* the day number of the first day of a date's month
FirstOfMonth(c) == DaysFromCivil(c.y, c.m, 1)

\* Date.prototype.setDate: day n of the date's month, n <= 0 and n past the
\* end of the month rolling over; the local time of day is kept
setDate(date, n) ==
    (FirstOfMonth(CivilFromDays(LocalDay(date))) + n - 1) * 24 + TimeOfDay(date) - tz

\* a date as year, month and day: the model's "YYYY-MM-DD"
DateKey(c) == <<c.y, c.m, c.d>>

\* date.toISOString().split("T")[0]: the UTC date, "YYYY-MM-DD"
toISODate(date) == DateKey(CivilFromDays(date \div 24))

\* date.toDateString(): the local date
toDateString(date) == DateKey(CivilFromDays(LocalDay(date)))

\* startOfWeek.setDate(date.getDate() - date.getDay())
startOfWeekOf(date) == setDate(date, getDate(date) - getDay(date))

\* endOfWeek.setDate(startOfWeek.getDate() + 6)
endOfWeekOf(weekStart) == setDate(weekStart, getDate(weekStart) + 6)

getWeekDateRange(date) ==
    [start |-> toISODate(startOfWeekOf(date)),
     end   |-> toISODate(endOfWeekOf(startOfWeekOf(date)))]

(***************************************************************************)
(* Session records                                                         *)
(***************************************************************************)
Null == [isNull |-> TRUE]

\* a field a stored document may lack
Undefined == "undefined"

Num(v) == [has |-> TRUE, val |-> v]

Missing == [has |-> FALSE, val |-> 0]

\* data.totalMinutes || 0: undefined and 0 are falsy
OrZero(f) == IF f.has /\ f.val # 0 THEN f.val ELSE 0

\* data.status || "submitted"
OrElse(v, dflt) == IF v = Undefined \/ v = "" THEN dflt ELSE v

\* the TimeSession built from one document of the query snapshot
SessionOfDoc(data) ==
    [id             |-> data.id,
     totalMinutes   |-> OrZero(data.totalMinutes),
     idleMinutes    |-> OrZero(data.idleMinutes),
     status         |-> OrElse(data.status, "submitted"),
     approvalStatus |-> OrElse(data.approvalStatus,
                               OrElse(data.status, "submitted"))]

(***************************************************************************)
(* SessionDetailsModal: per-session metrics                                *)
(***************************************************************************)
\* Math.round((a / b) * 100)
RoundPercent(a, b) == MathRound(FMul(NumDiv(a, b), 100))

\* the rating with rule 4 requiring both thresholds
performanceRatingOf_BothInRule4(sessionProductivity, dailyTargetAchievement) ==
    IF sessionProductivity >= 90 /\ dailyTargetAchievement >= 80 THEN "Excellent"
    ELSE IF sessionProductivity >= 80 /\ dailyTargetAchievement >= 70 THEN "Good"
    ELSE IF sessionProductivity >= 70 /\ dailyTargetAchievement >= 60 THEN "Average"
    ELSE IF sessionProductivity >= 60 /\ dailyTargetAchievement >= 50
         THEN "Below Average"
    ELSE "Poor"

performanceRatingOf(sessionProductivity, dailyTargetAchievement) ==
    IF sessionProductivity >= 90 /\ dailyTargetAchievement >= 80 THEN "Excellent"
    ELSE IF sessionProductivity >= 80 /\ dailyTargetAchievement >= 70 THEN "Good"
    ELSE IF sessionProductivity >= 70 /\ dailyTargetAchievement >= 60 THEN "Average"
    ELSE IF sessionProductivity >= 60 \/ dailyTargetAchievement >= 50
         THEN "Below Average"
    ELSE "Poor"

calculateProductivityMetrics(session) ==
    LET expectedDailyMinutes == 8 * 60
        activeMinutes == session.totalMinutes - session.idleMinutes
        sessionProductivity ==
            IF session.totalMinutes > 0
            THEN RoundPercent(activeMinutes, session.totalMinutes) ELSE 0
        dailyTargetAchievement ==
            RoundPercent(session.totalMinutes, expectedDailyMinutes)
        efficiencyScore == RoundPercent(activeMinutes, expectedDailyMinutes)
    IN  [activeMinutes          |-> activeMinutes,
         sessionProductivity    |-> sessionProductivity,
         dailyTargetAchievement |-> dailyTargetAchievement,
         efficiencyScore        |-> efficiencyScore,
         performanceRating      |->
             performanceRatingOf(sessionProductivity, dailyTargetAchievement),
         expectedDailyMinutes   |-> expectedDailyMinutes]

(***************************************************************************)
(* TimesheetManagement: the table and the weekly statistics                *)
(***************************************************************************)
\* the "Duration & Performance" column of one row
durationRender(session) ==
    LET activeMinutes == session.totalMinutes - session.idleMinutes
    IN  [activeMinutes    |-> activeMinutes,
         productivityRate |->
             IF session.totalMinutes > 0
             THEN RoundPercent(activeMinutes, session.totalMinutes) ELSE 0]

\* ss.reduce((acc, s) => acc + s.totalMinutes, 0)
RECURSIVE ReduceTotal(_)
ReduceTotal(ss) ==
    IF Len(ss) = 0 THEN 0
    ELSE ReduceTotal(SubSeq(ss, 1, Len(ss) - 1)) + ss[Len(ss)].totalMinutes

\* the idle sum reading the wrong field
RECURSIVE ReduceIdle_WrongField(_)
ReduceIdle_WrongField(ss) ==
    IF Len(ss) = 0 THEN 0
    ELSE ReduceIdle_WrongField(SubSeq(ss, 1, Len(ss) - 1))
         + ss[Len(ss)].totalMinutes

\* ss.reduce((acc, s) => acc + s.idleMinutes, 0)
RECURSIVE ReduceIdle(_)
ReduceIdle(ss) ==
    IF Len(ss) = 0 THEN 0
    ELSE ReduceIdle(SubSeq(ss, 1, Len(ss) - 1)) + ss[Len(ss)].idleMinutes

\* ss.filter((s) => s.status === st || s.approvalStatus === st).length
CountStatus(ss, st) ==
    Cardinality({i \in 1..Len(ss) :
                    ss[i].status = st \/ ss[i].approvalStatus = st})

\* the average without its guard on an empty list
averageSessionLengthOf_Unguarded(ss, totalMinutes) ==
    NumDiv(totalMinutes, Len(ss))

averageSessionLengthOf(ss, totalMinutes) ==
    IF Len(ss) > 0 THEN NumDiv(totalMinutes, Len(ss)) ELSE FromInt(0)

productivityRateOf(activeMinutes, totalMinutes) ==
    IF totalMinutes > 0 THEN RoundPercent(activeMinutes, totalMinutes) ELSE 0

statsOf(ss) ==
    LET totalMinutes  == ReduceTotal(ss)
        idleMinutes   == ReduceIdle(ss)
        activeMinutes == totalMinutes - idleMinutes
    IN  [totalSessions        |-> Len(ss),
         pending              |-> CountStatus(ss, "submitted"),
         approved             |-> CountStatus(ss, "approved"),
         disapproved          |-> CountStatus(ss, "disapproved"),
         totalMinutes         |-> totalMinutes,
         idleMinutes          |-> idleMinutes,
         activeMinutes        |-> activeMinutes,
         productivityRate     |-> productivityRateOf(activeMinutes, totalMinutes),
         averageSessionLength |-> averageSessionLengthOf(ss, totalMinutes)]

\* currentWeekStart.toDateString() === weekStart.toDateString()
\* the comparison of the two instants instead of their dates
isCurrentWeekOf_SameInstant(currentWeekStart, weekStart) ==
    currentWeekStart = weekStart

isCurrentWeekOf(currentWeekStart, weekStart) ==
    toDateString(currentWeekStart) = toDateString(weekStart)

\* nextWeek.setDate(nextWeek.getDate() + 7)
weekAfter(week) == setDate(week, getDate(week) + 7)

\* the memo on currentWeek; `at` is its local `now = new Date()`
weekCalculationsOf(week, at) ==
    [start           |-> startOfWeekOf(week),
     end             |-> endOfWeekOf(startOfWeekOf(week)),
     isCurrentWeek   |-> isCurrentWeekOf(startOfWeekOf(at), startOfWeekOf(week)),
     canNavigateNext |-> startOfWeekOf(weekAfter(week)) <= startOfWeekOf(at),
     now             |-> at]

\* a render of the component: the memo and the table follow the session list
Rendered(ss) ==
    /\ sessions' = ss
    /\ stats' = statsOf(ss)
    /\ rowRates' = [i \in 1..Len(ss) |-> durationRender(ss[i])]

\* fetchUserSessions: the query snapshot mapped to sessions, then setSessions
fetchUserSessions(userId, week) ==
    /\ queryRange' = getWeekDateRange(week)
    /\ Rendered([i \in 1..Len(docs) |-> SessionOfDoc(docs[i])])

\* a team member is picked: the effect on selectedUser fetches the sessions
selectUser(userId) ==
    /\ selectedUser = ""
    /\ selectedUser' = userId
    /\ fetchUserSessions(userId, currentWeek)
    /\ UNCHANGED <<docs, selectedSession, showSessionModal, metrics>>
    /\ UNCHANGED <<tz, now, currentWeek, weekCalculations>>
    /\ UNCHANGED otherVars

\* the selection is cleared: the effect on selectedUser does setSessions([])
clearUser ==
    /\ selectedUser # ""
    /\ selectedSession = Null
    /\ selectedUser' = ""
    /\ Rendered(<<>>)
    /\ UNCHANGED <<docs, selectedSession, showSessionModal, metrics>>
    /\ UNCHANGED weekVars
    /\ UNCHANGED otherVars

\* a click on a row: the modal opens on the session and renders its metrics
handleViewSession(i) ==
    /\ selectedSession = Null
    /\ i \in 1..Len(sessions)
    /\ selectedSession' = sessions[i]
    /\ showSessionModal' = TRUE
    /\ metrics' = calculateProductivityMetrics(sessions[i])
    /\ UNCHANGED <<docs, selectedUser, sessions, stats, rowRates>>
    /\ UNCHANGED weekVars
    /\ UNCHANGED otherVars

\* an update call made by a modal that has been closed since: its handler
\* still runs to its end, on a component that is gone
Abandoned(calls) ==
    {IF c.kind = "update" /\ c.origin = "modal"
     THEN [c EXCEPT !.origin = "closed"] ELSE c : c \in calls}

\* setShowSessionModal(false); setSelectedSession(null): the modal is no
\* longer rendered and its state is gone with it
ModalUnmounted ==
    /\ showSessionModal' = FALSE
    /\ selectedSession' = Null
    /\ metrics' = Null
    /\ showDisapprovalForm' = FALSE
    /\ disapprovalReason' = <<>>
    /\ approving' = FALSE
    /\ disapproving' = FALSE

\* the modal's onClose
onClose ==
    /\ selectedSession # Null
    /\ ModalUnmounted
    /\ inflight' = Abandoned(inflight)
    /\ UNCHANGED <<docs, selectedUser, sessions, stats, rowRates>>
    /\ UNCHANGED weekVars
    /\ UNCHANGED <<store, monthVars, appVars, listVars, analyticsVars,
                   monthInflight, toasts, outerVars>>

\* setCurrentWeek(week): the memo is recomputed at the present moment and
\* the effect on currentWeek fetches the week of the selected team member
setCurrentWeek(week) ==
    /\ currentWeek' = week
    /\ weekCalculations' = weekCalculationsOf(week, now)
    /\ IF selectedUser # ""
       THEN fetchUserSessions(selectedUser, week)
       ELSE Rendered(<<>>) /\ UNCHANGED queryRange
    /\ UNCHANGED <<docs, selectedUser, selectedSession, showSessionModal,
                   metrics, tz, now>>
    /\ UNCHANGED otherVars

\* navigateWeek("prev")
navigateWeekPrev ==
    setCurrentWeek(setDate(currentWeek, getDate(currentWeek) - 7))

\* navigateWeek("next") as it would be with the button always enabled
navigateWeekNext_AlwaysEnabled ==
    setCurrentWeek(setDate(currentWeek, getDate(currentWeek) + 7))

\* navigateWeek("next"): the button is disabled unless canNavigateNext
navigateWeekNext ==
    /\ weekCalculations.canNavigateNext
    /\ setCurrentWeek(setDate(currentWeek, getDate(currentWeek) + 7))

\* goToCurrentWeek: the button is shown unless isCurrentWeek
goToCurrentWeek ==
    /\ ~weekCalculations.isCurrentWeek
    /\ setCurrentWeek(now)

(***************************************************************************)
(* Bounds and inputs                                                       *)
(***************************************************************************)
\* every minute count up to MaxMinutes, and the workday-sized ones
MaxMinutes == 40

WorkdayMinutes == {45, 50, 60, 90, 100, 150, 200, 240, 288, 300, 336, 384, 432, 450, 480, 600}

MinuteValues == (0..MaxMinutes) \cup WorkdayMinutes

Doc(id, t, i, st, ap) ==
    [id |-> id, totalMinutes |-> Num(t), idleMinutes |-> Num(i),
     status |-> st, approvalStatus |-> ap]

\* the clock starts on Wednesday 2024-01-10, 00:00 UTC
ClockStart == DaysFromCivil(2024, 1, 10) * 24

\* the clock moves in steps of TickHours, MaxTicks times
TickHours == 6

MaxTicks == 20

\* how far back the model follows navigateWeek("prev")
MaxWeeksBack == 2

\* UTC-6, UTC and UTC+6
TimeZones == {-6, 0, 6}

\* the view as mounted at the instant `at` in time zone `zone`
Mounted(zone, at) ==
    /\ tz = zone
    /\ now = at
    /\ currentWeek = at
    /\ weekCalculations = weekCalculationsOf(at, at)

\* the details modal as it is constructed
ModalFresh ==
    /\ showDisapprovalForm = FALSE
    /\ disapprovalReason = <<>>
    /\ approving = FALSE
    /\ disapproving = FALSE

\* no function has been memoized
MemoUnused ==
    /\ cache = <<>>
    /\ maxSize = 1
    /\ fnCalled = FALSE
    /\ lastResult = Null
    /\ recency = <<>>

\* no function has been debounced
DebounceUnused ==
    /\ timeout = Null
    /\ wait = 1
    /\ timerClock = 0
    /\ debounceCalls = <<>>
    /\ invoked = <<>>

UtilitiesUnused == MemoUnused /\ DebounceUnused

\* no review, no authentication event and no user management yet
AppIdle ==
    /\ ModalFresh
    /\ toasts = <<>>
    /\ authUser = ""
    /\ authPending = {}
    /\ managedUsers = <<>>
    /\ usersLoading = FALSE
    /\ editUser = Null
    /\ formData = Null
    /\ userInflight = {}

\* nothing else has happened yet
NothingElse == AppIdle /\ UtilitiesUnused

\* a manager is signed in; no view has loaded a list of users or has a
\* fetch of sessions under way
ManagerSignedIn ==
    /\ user = [id |-> "m1", role |-> "manager"]
    /\ loading = FALSE
    /\ activeTab = "timesheets"
    /\ tabEffect = FALSE
    /\ usersStore = <<>>
    /\ users = <<>>
    /\ weekLoading = FALSE
    /\ monthUsers = <<>>
    /\ monthLoading = FALSE
    /\ reportUsers = <<>>
    /\ reportLoading = FALSE
    /\ selectedUsers = <<>>
    /\ dateRange = [start |-> now - 30 * 24, end |-> now]
    /\ reportSessions = <<>>
    /\ topPerformers = <<>>
    /\ inflight = {}
    /\ monthInflight = {}

NothingLoaded == ManagerSignedIn /\ NothingElse

\* nothing but the weekly view is on screen
MonthlyViewUnmounted ==
    /\ store = <<>>
    /\ monthUser = ""
    /\ currentMonth = now
    /\ monthSessions = <<>>
    /\ calendarData = <<>>
    /\ monthlyStats = Null
    /\ isCurrentMonth = TRUE
    /\ canNavigateNext = FALSE

OtherViewsUnmounted == NothingLoaded /\ MonthlyViewUnmounted

ModalClosed ==
    /\ selectedSession = Null
    /\ showSessionModal = FALSE
    /\ metrics = Null

\* The details modal over a week that holds one session.
InitMetrics ==
    /\ \E t \in MinuteValues, i \in MinuteValues :
           docs = <<Doc(1, t, i, "submitted", "submitted")>>
    /\ selectedUser = "u1"
    /\ sessions = [i \in 1..Len(docs) |-> SessionOfDoc(docs[i])]
    /\ stats = statsOf(sessions)
    /\ rowRates = [i \in 1..Len(sessions) |-> durationRender(sessions[i])]
    /\ ModalClosed
    /\ Mounted(0, ClockStart)
    /\ queryRange = getWeekDateRange(currentWeek)
    /\ OtherViewsUnmounted

NextMetrics ==
    \/ \E i \in 1..Len(sessions) : handleViewSession(i)
    \/ onClose

SpecMetrics == InitMetrics /\ [][NextMetrics]_vars

\* The weekly view over a store that answers with up to MaxSessions documents.
MaxSessions == 3

UserIds == {"u1"}

\* total, idle, status, approvalStatus of the documents the store may hold;
\* README.md documents a schema that has approvalStatus and no status
DocKinds ==
    {<<480, 60, "submitted", "submitted">>,
     <<0, 0, "approved", "approved">>,
     <<300, 300, "disapproved", "disapproved">>,
     <<40, 17, "approved", "approved">>,
     <<60, 90, "submitted", "submitted">>,
     <<480, 60, Undefined, "approved">>,
     <<300, 300, "pending", "pending">>,
     <<40, 17, Undefined, Undefined>>}

InitSummary ==
    /\ \E n \in 0..MaxSessions : \E ks \in [1..n -> DocKinds] :
           docs = [i \in 1..n |-> Doc(i, ks[i][1], ks[i][2], ks[i][3], ks[i][4])]
    /\ selectedUser = ""
    /\ sessions = <<>>
    /\ stats = statsOf(<<>>)
    /\ rowRates = <<>>
    /\ ModalClosed
    /\ Mounted(0, ClockStart)
    /\ queryRange = Null
    /\ OtherViewsUnmounted

NextSummary ==
    \/ \E u \in UserIds : selectUser(u)
    \/ clearUser

SpecSummary == InitSummary /\ [][NextSummary]_vars

\* The week navigation of the weekly view.
Tick ==
    /\ now + TickHours <= ClockStart + MaxTicks * TickHours
    /\ now' = now + TickHours
    /\ UNCHANGED <<tz, currentWeek, weekCalculations, queryRange>>
    /\ UNCHANGED sessionVars
    /\ UNCHANGED otherVars

InitWeek ==
    /\ docs = <<>>
    /\ selectedUser = ""
    /\ sessions = <<>>
    /\ stats = statsOf(<<>>)
    /\ rowRates = <<>>
    /\ ModalClosed
    /\ \E zone \in TimeZones : Mounted(zone, ClockStart)
    /\ queryRange = Null
    /\ OtherViewsUnmounted

NextWeek ==
    \/ Tick
    \/ \E u \in UserIds : selectUser(u)
    \/ (currentWeek - 7 * 24 >= ClockStart - MaxWeeksBack * 7 * 24 /\ navigateWeekPrev)
    \/ navigateWeekNext
    \/ goToCurrentWeek

SpecWeek == InitWeek /\ [][NextWeek]_vars

(***************************************************************************)
(* Properties of the per-session metrics                                   *)
(***************************************************************************)
ExpectedDailyMinutes == 480

\* p / q rounded to the nearest integer, a half going up (q > 0)
RoundHalfUp(p, q) == (2 * p + q) \div (2 * q)

Max(a, b) == IF a >= b THEN a ELSE b

Viewing == selectedSession # Null /\ metrics # Null

\* C1: for a session with totalMinutes >= 0 and 0 <= idleMinutes <=
\* totalMinutes the metrics are activeMinutes = totalMinutes - idleMinutes,
\* sessionProductivity = round(activeMinutes / totalMinutes * 100) (0 when
\* totalMinutes = 0), dailyTargetAchievement = round(totalMinutes / 480 * 100)
\* and efficiencyScore = round(activeMinutes / 480 * 100), round being the
\* nearest integer with halves up; 450 / 50 gives 400, 89, 94 and 83.
C1_MetricsAreExactRoundings ==
    (Viewing /\ selectedSession.totalMinutes >= 0
             /\ selectedSession.idleMinutes >= 0
             /\ selectedSession.idleMinutes <= selectedSession.totalMinutes)
    => LET t == selectedSession.totalMinutes
           a == t - selectedSession.idleMinutes
       IN  /\ metrics.activeMinutes = a
           /\ metrics.sessionProductivity =
                  (IF t > 0 THEN RoundHalfUp(100 * a, t) ELSE 0)
           /\ metrics.dailyTargetAchievement =
                  RoundHalfUp(100 * t, ExpectedDailyMinutes)
           /\ metrics.efficiencyScore =
                  RoundHalfUp(100 * a, ExpectedDailyMinutes)
           /\ (t = 450 /\ a = 400 =>
                  /\ metrics.sessionProductivity = 89
                  /\ metrics.dailyTargetAchievement = 94
                  /\ metrics.efficiencyScore = 83)

\* C2: activeMinutes is never negative: an idleMinutes above totalMinutes
\* is clamped to totalMinutes, so activeMinutes = max(0, totalMinutes -
\* idleMinutes) and sessionProductivity stays within 0..100.
C2_IdleIsClamped ==
    (Viewing /\ selectedSession.totalMinutes >= 0
             /\ selectedSession.idleMinutes >= 0)
    => /\ metrics.activeMinutes >= 0
       /\ metrics.activeMinutes =
              Max(0, selectedSession.totalMinutes - selectedSession.idleMinutes)
       /\ metrics.sessionProductivity \in 0..100

Ratings == {"Excellent", "Good", "Average", "Below Average", "Poor"}

\* the ordered rule set, each rule with the failure of the rules above it
RuleRating(p, t) ==
    CASE p >= 90 /\ t >= 80 -> "Excellent"
      [] ~(p >= 90 /\ t >= 80) /\ (p >= 80 /\ t >= 70) -> "Good"
      [] ~(p >= 80 /\ t >= 70) /\ (p >= 70 /\ t >= 60) -> "Average"
      [] ~(p >= 70 /\ t >= 60) /\ (p >= 60 \/ t >= 50) -> "Below Average"
      [] p < 60 /\ t < 50 -> "Poor"

\* C3: performanceRating is decided from (sessionProductivity,
\* dailyTargetAchievement) by the ordered rules, first match wins:
\* >= 90 and >= 80 Excellent; >= 80 and >= 70 Good; >= 70 and >= 60 Average;
\* productivity >= 60 or target >= 50 Below Average; otherwise Poor.  Every
\* pair gets one of the five ratings and the session 450 / 50, whose pair is
\* (89, 94), is rated Good.
C3_RatingFollowsRules ==
    Viewing =>
        /\ metrics.performanceRating \in Ratings
        /\ metrics.performanceRating =
               RuleRating(metrics.sessionProductivity,
                          metrics.dailyTargetAchievement)
        /\ (selectedSession.totalMinutes = 450 /\ selectedSession.idleMinutes = 50
                => /\ metrics.sessionProductivity = 89
                   /\ metrics.dailyTargetAchievement = 94
                   /\ metrics.performanceRating = "Good")

\* a session rated Below Average by its target alone (productivity < 60)
C3_Witness ==
    /\ Viewing
    /\ metrics.performanceRating = "Below Average"
    /\ metrics.sessionProductivity < 60
    /\ metrics.dailyTargetAchievement >= 50

(***************************************************************************)
(* Properties of the weekly statistics                                     *)
(***************************************************************************)
RECURSIVE TotalOver(_, _)
TotalOver(S, ss) ==
    IF S = {} THEN 0
    ELSE LET i == CHOOSE j \in S : TRUE
         IN  ss[i].totalMinutes + TotalOver(S \ {i}, ss)

RECURSIVE IdleOver(_, _)
IdleOver(S, ss) ==
    IF S = {} THEN 0
    ELSE LET i == CHOOSE j \in S : TRUE
         IN  ss[i].idleMinutes + IdleOver(S \ {i}, ss)

IndexPermutations(n) == {f \in [1..n -> 1..n] : \A i \in 1..n : \E j \in 1..n : f[j] = i}

Fetched == selectedUser # ""

\* C4: for any list of sessions the summary has totalSessions = the number
\* of sessions, totalMinutes = the sum of their totalMinutes, idleMinutes =
\* the sum of their idleMinutes and activeMinutes = totalMinutes -
\* idleMinutes, whatever the order of the list.
C4_TotalsAreSums ==
    LET n == Len(sessions)
    IN  /\ stats.totalSessions = n
        /\ stats.totalMinutes = TotalOver(1..n, sessions)
        /\ stats.idleMinutes = IdleOver(1..n, sessions)
        /\ stats.activeMinutes = stats.totalMinutes - stats.idleMinutes
        /\ \A f \in IndexPermutations(n) :
               LET other == statsOf([i \in 1..n |-> sessions[f[i]]])
               IN  /\ other.totalSessions = stats.totalSessions
                   /\ other.totalMinutes = stats.totalMinutes
                   /\ other.idleMinutes = stats.idleMinutes
                   /\ other.activeMinutes = stats.activeMinutes

\* a fetched week of several sessions with different durations
C4_Witness ==
    /\ Fetched
    /\ Len(sessions) >= 2
    /\ sessions[1].totalMinutes # sessions[2].totalMinutes
    /\ sessions[1].idleMinutes # sessions[2].idleMinutes
    /\ stats.idleMinutes > 0

\* C5: productivityRate comes from the aggregate totals, round(sum of
\* active minutes / sum of total minutes * 100) when the summed total is > 0
\* and 0 otherwise, not from the per-session rates; totalMinutes
\* [480, 0, 300] with idleMinutes [60, 0, 300] gives 780, 420 and 54.
C5_RateOfAggregateTotals ==
    LET n == Len(sessions)
        t == TotalOver(1..n, sessions)
        a == t - IdleOver(1..n, sessions)
    IN  /\ stats.productivityRate = (IF t > 0 THEN RoundHalfUp(100 * a, t) ELSE 0)
        /\ (/\ n = 3
            /\ \A i \in 1..n :
                   /\ sessions[i].totalMinutes = <<480, 0, 300>>[i]
                   /\ sessions[i].idleMinutes = <<60, 0, 300>>[i])
           => /\ stats.totalMinutes = 780
              /\ stats.activeMinutes = 420
              /\ stats.productivityRate = 54

KnownStatuses == {"submitted", "approved", "disapproved"}

WithStatus(ss, st) == {i \in 1..Len(ss) : ss[i].status = st}

\* C6: each session is counted in at most one of the pending, approved and
\* disapproved counts, by exact match of its status; a session with another
\* status is counted in none.  So the three counts add up to at most
\* totalSessions, with equality exactly when every status is a known one.
C6_StatusCountsPartition ==
    /\ stats.pending = Cardinality(WithStatus(sessions, "submitted"))
    /\ stats.approved = Cardinality(WithStatus(sessions, "approved"))
    /\ stats.disapproved = Cardinality(WithStatus(sessions, "disapproved"))
    /\ stats.pending + stats.approved + stats.disapproved <= stats.totalSessions
    /\ (stats.pending + stats.approved + stats.disapproved = stats.totalSessions
            <=> \A i \in 1..Len(sessions) : sessions[i].status \in KnownStatuses)

\* C7: the summary of no sessions is zero in every field, and no division
\* by the zero total or the zero count is evaluated (the result would be
\* NaN, not 0).
C7_EmptyIsAllZero ==
    Len(sessions) = 0 =>
        /\ stats.totalSessions = 0
        /\ stats.totalMinutes = 0
        /\ stats.idleMinutes = 0
        /\ stats.activeMinutes = 0
        /\ stats.productivityRate = 0
        /\ stats.pending = 0
        /\ stats.approved = 0
        /\ stats.disapproved = 0
        /\ stats.averageSessionLength = FZero

\* a team member whose week holds no session has been fetched
C7_Witness ==
    /\ Fetched
    /\ docs = <<>>
    /\ sessions = <<>>
    /\ stats.averageSessionLength = FZero

(***************************************************************************)
(* Properties of the week range and of the week navigation                 *)
(***************************************************************************)
\* the day number of the Sunday on or before a day
SundayOnOrBefore(day) == CHOOSE s \in (day - 6)..day : (s + 4) % 7 = 0

DateOfDay(day) == LET c == CivilFromDays(day) IN <<c.y, c.m, c.d>>

\* the week starts of the displayed week and of the week of the moment the
\* memo was computed at, as local calendar days
AnchorWeekStart == SundayOnOrBefore(LocalDay(currentWeek))

NowWeekStart == SundayOnOrBefore(LocalDay(weekCalculations.now))

\* C8: for every anchor date and time of day the week range is start = the
\* calendar date of the Sunday on or before the anchor and end = start + 6
\* days, as date-only values, so the anchor's own date lies in the range;
\* Wednesday 2024-01-10 gives 2024-01-07 .. 2024-01-13.  The range the store
\* is queried with is the range that is displayed.
C8_WeekRangeIsSundayToSaturday ==
    queryRange # Null =>
        /\ queryRange.start = DateOfDay(AnchorWeekStart)
        /\ queryRange.end = DateOfDay(AnchorWeekStart + 6)
        /\ (toDateString(currentWeek) = <<2024, 1, 10>> =>
                queryRange = [start |-> <<2024, 1, 7>>, end |-> <<2024, 1, 13>>])
        /\ queryRange.start = toDateString(weekCalculations.start)
        /\ queryRange.end = toDateString(weekCalculations.end)

\* C9: canAdvanceWeek is false exactly when the week after the anchor's week
\* starts strictly after the start of the week containing now, as calendar
\* dates and whatever the times of day: false when the anchor lies in the
\* current week, true when it lies in any earlier week.
C9_CanAdvanceIffEarlierWeek ==
    /\ weekCalculations.canNavigateNext = ~(AnchorWeekStart + 7 > NowWeekStart)
    /\ (AnchorWeekStart = NowWeekStart => ~weekCalculations.canNavigateNext)
    /\ (AnchorWeekStart < NowWeekStart => weekCalculations.canNavigateNext)

\* C10: isCurrentWeek is true if and only if the week of the anchor and the
\* week of now start on the same date, whatever the two times of day.
C10_IsCurrentWeekIffSameWeekStart ==
    weekCalculations.isCurrentWeek <=> (AnchorWeekStart = NowWeekStart)

\* the displayed week is the current one, reached by navigation at another
\* time of day than the one the anchor carries
C10_Witness ==
    /\ weekCalculations.isCurrentWeek
    /\ TimeOfDay(currentWeek) # TimeOfDay(weekCalculations.now)
    /\ LocalDay(currentWeek) # LocalDay(weekCalculations.now)

(***************************************************************************)
(* MonthlyTimesheet: the calendar grid and the monthly statistics          *)
(***************************************************************************)
getFullYear(date) == CivilFromDays(LocalDay(date)).y

\* Date.prototype.getMonth: 0 = January
getMonth(date) == CivilFromDays(LocalDay(date)).m - 1

\* new Date(year, monthIndex, day): local midnight, the month index and the
\* day rolling over (day 0 is the last day of the month before)
NewDate(year, monthIndex, day) ==
    (DaysFromCivil(year + monthIndex \div 12, (monthIndex % 12) + 1, 1) + day - 1) * 24
        - tz

\* Date.prototype.setMonth: the day of the month and the local time are kept,
\* a day past the end of the new month rolling over into the next one
setMonth(date, monthIndex) ==
    NewDate(getFullYear(date), monthIndex, getDate(date)) + TimeOfDay(date)

\* the counting loop run over the days of the month before as well
getWorkingDaysInMonth_FromDayZero(date) ==
    LET year        == getFullYear(date)
        month       == getMonth(date)
        daysInMonth == getDate(NewDate(year, month + 1, 0))
    IN  Cardinality({day \in 0..daysInMonth :
                        LET dayOfWeek == getDay(NewDate(year, month, day))
                        IN  dayOfWeek # 0 /\ dayOfWeek # 6})

getWorkingDaysInMonth(date) ==
    LET year        == getFullYear(date)
        month       == getMonth(date)
        daysInMonth == getDate(NewDate(year, month + 1, 0))
    IN  Cardinality({day \in 1..daysInMonth :
                        LET dayOfWeek == getDay(NewDate(year, month, day))
                        IN  dayOfWeek # 0 /\ dayOfWeek # 6})

\* sessions.filter((session) => session.date === dateString)
SessionsDated(ss, dateString) == SelectSeq(ss, LAMBDA session : session.date = dateString)

\* the first day of the calendar: the Monday on or before the first day
startDateOf(firstDay) ==
    LET firstDayOfWeek == getDay(firstDay)
        daysToSubtract == IF firstDayOfWeek = 0 THEN 6 ELSE firstDayOfWeek - 1
    IN  setDate(firstDay, getDate(firstDay) - daysToSubtract)

\* the last day of the calendar: the Sunday on or after the last day
endDateOf(lastDay) ==
    LET lastDayOfWeek == getDay(lastDay)
        daysToAdd     == IF lastDayOfWeek = 0 THEN 0 ELSE 7 - lastDayOfWeek
    IN  setDate(lastDay, getDate(lastDay) + daysToAdd)

\* the CalendarDay pushed for currentDate
CalendarDayOf(currentDate, month, ss, at) ==
    [date           |-> getDate(currentDate),
     fullDate       |-> currentDate,
     isCurrentMonth |-> getMonth(currentDate) = month,
     isToday        |-> LocalDay(currentDate) = LocalDay(at),
     sessions       |-> SessionsDated(ss, toISODate(currentDate)),
     totalMinutes   |-> ReduceTotal(SessionsDated(ss, toISODate(currentDate)))]

\* the loop: from startDate while currentDate <= endDate, a day at a time
CalendarDaysBetween(startDate, endDate, month, ss, at) ==
    [i \in 1..((endDate - startDate) \div 24 + 1) |->
        CalendarDayOf(setDate(startDate, getDate(startDate) + (i - 1)),
                      month, ss, at)]

\* the days of the grid of the month of currentMonth, built at the instant at
calendarDataOf(month, ss, at) ==
    CalendarDaysBetween(
        startDateOf(NewDate(getFullYear(month), getMonth(month), 1)),
        endDateOf(NewDate(getFullYear(month), getMonth(month) + 1, 0)),
        getMonth(month), ss, at)

monthlyStatsOf(ss, month) ==
    LET totalMinutes       == ReduceTotal(ss)
        workingDaysInMonth == getWorkingDaysInMonth(month)
    IN  [totalMinutes       |-> totalMinutes,
         expectedMinutes    |-> workingDaysInMonth * 8 * 60,
         workingDaysInMonth |-> workingDaysInMonth,
         totalSessions      |-> Len(ss),
         averageDailyHours  |->
             IF Len(ss) > 0 THEN FDiv(NumDiv(totalMinutes, Len(ss)), 60)
             ELSE FromInt(0)]

\* currentMonth and now in the same month of the same year
isCurrentMonthOf(month, at) ==
    getMonth(month) = getMonth(at) /\ getFullYear(month) = getFullYear(at)

canNavigateNextOf(month, at) == setMonth(month, getMonth(month) + 1) <= at

\* "YYYY-MM-DD" strings compare as their (year, month, day) triples
DateLeq(a, b) ==
    \/ a[1] < b[1]
    \/ a[1] = b[1] /\ a[2] < b[2]
    \/ a[1] = b[1] /\ a[2] = b[2] /\ a[3] <= b[3]

\* the TimeSession built from one document, with its user and date key
DatedSessionOfDoc(data) ==
    [id             |-> data.id,
     userId         |-> data.userId,
     date           |-> data.date,
     totalMinutes   |-> OrZero(data.totalMinutes),
     idleMinutes    |-> OrZero(data.idleMinutes),
     status         |-> OrElse(data.status, "submitted"),
     approvalStatus |-> OrElse(data.approvalStatus,
                               OrElse(data.status, "submitted"))]

\* the sessions query of a user between two date keys; the store keeps the
\* collection in the order of the query, date descending
QuerySessions(userId, startDate, endDate) ==
    SelectSeq(store, LAMBDA data :
        /\ data.userId = userId
        /\ DateLeq(startDate, data.date)
        /\ DateLeq(data.date, endDate))

\* fetchMonthlyUserSessions: what setSessions receives
MonthlySessionsOf(userId, month) ==
    LET startOfMonth == NewDate(getFullYear(month), getMonth(month), 1)
        endOfMonth   == NewDate(getFullYear(month), getMonth(month) + 1, 0)
        snapshot     == QuerySessions(userId, toISODate(startOfMonth),
                                      toISODate(endOfMonth))
    IN  [i \in 1..Len(snapshot) |-> DatedSessionOfDoc(snapshot[i])]

\* a render of the monthly view at the present moment
MonthRendered(month, ss) ==
    /\ monthSessions' = ss
    /\ calendarData' = calendarDataOf(month, ss, now)
    /\ monthlyStats' = monthlyStatsOf(ss, month)

\* a team member is picked in the monthly view
monthSelectUser(userId) ==
    /\ monthUser = ""
    /\ monthUser' = userId
    /\ MonthRendered(currentMonth, MonthlySessionsOf(userId, currentMonth))
    /\ UNCHANGED <<currentMonth, isCurrentMonth, canNavigateNext, store>>
    /\ UNCHANGED <<sessionVars, weekVars>>
    /\ UNCHANGED laterVars

\* the selection of the monthly view is cleared: setSessions([])
monthClearUser ==
    /\ monthUser # ""
    /\ monthUser' = ""
    /\ MonthRendered(currentMonth, <<>>)
    /\ UNCHANGED <<currentMonth, isCurrentMonth, canNavigateNext, store>>
    /\ UNCHANGED <<sessionVars, weekVars>>
    /\ UNCHANGED laterVars

\* setCurrentMonth(month): the memos are recomputed and the effect on
\* currentMonth fetches the month of the selected team member
setCurrentMonth(month) ==
    /\ currentMonth' = month
    /\ isCurrentMonth' = isCurrentMonthOf(month, now)
    /\ canNavigateNext' = canNavigateNextOf(month, now)
    /\ IF monthUser # ""
       THEN MonthRendered(month, MonthlySessionsOf(monthUser, month))
       ELSE MonthRendered(month, <<>>)
    /\ UNCHANGED <<monthUser, store>>
    /\ UNCHANGED <<sessionVars, weekVars>>
    /\ UNCHANGED laterVars

\* navigateMonth("prev")
navigateMonthPrev == setCurrentMonth(setMonth(currentMonth, getMonth(currentMonth) - 1))

\* navigateMonth("next"): the button is disabled unless canNavigateNext
navigateMonthNext ==
    /\ canNavigateNext
    /\ setCurrentMonth(setMonth(currentMonth, getMonth(currentMonth) + 1))

\* goToCurrentMonth: the button is shown unless isCurrentMonth
goToCurrentMonth ==
    /\ ~isCurrentMonth
    /\ setCurrentMonth(now)

(***************************************************************************)
(* The monthly view: inputs                                                *)
(***************************************************************************)
\* how many months back the model follows navigateMonth("prev")
MaxMonthsBack == 14

\* the view is mounted on 2024-03-10 00:00 UTC or on 2024-03-31 12:00 UTC
MonthClockStarts ==
    {DaysFromCivil(2024, 3, 10) * 24, DaysFromCivil(2024, 3, 31) * 24 + 12}

\* a count of months: year * 12 + month index
MonthOrdinal(date) == getFullYear(date) * 12 + getMonth(date)

LastDayOf(year, month) ==
    CivilFromDays(DaysFromCivil(year + month \div 12, (month % 12) + 1, 1) - 1).d

StoredDoc(id, userId, date, t, i, st) ==
    [id |-> id, userId |-> userId, date |-> date, totalMinutes |-> t,
     idleMinutes |-> i, status |-> st, approvalStatus |-> st]

\* The collection, newest first: for each month from March 2024 back, a
\* session of u1 on the last day and two on the first day; and a session of
\* another user.
MonthStore ==
    <<StoredDoc(0, "u2", <<2024, 3, 31>>, Num(45), Num(5), "submitted")>> \o
    [n \in 1..(3 * (MaxMonthsBack + 2)) |->
        LET o == (2024 * 12 + 2) - (n - 1) \div 3
            y == o \div 12
            m == (o % 12) + 1
        IN  CASE (n - 1) % 3 = 0 ->
                   StoredDoc(n, "u1", <<y, m, LastDayOf(y, m)>>, Num(300), Num(20), "approved")
              [] (n - 1) % 3 = 1 ->
                   StoredDoc(n, "u1", <<y, m, 1>>, Num(480), Num(60), "submitted")
              [] OTHER ->
                   StoredDoc(n, "u1", <<y, m, 1>>, Num(30), Missing, "submitted")]

WeeklyViewIdle ==
    /\ docs = <<>>
    /\ selectedUser = ""
    /\ sessions = <<>>
    /\ stats = statsOf(<<>>)
    /\ rowRates = <<>>
    /\ ModalClosed
    /\ queryRange = Null

InitMonth ==
    /\ \E zone \in TimeZones, at \in MonthClockStarts : Mounted(zone, at)
    /\ WeeklyViewIdle
    /\ NothingLoaded
    /\ store = MonthStore
    /\ monthUser = ""
    /\ currentMonth = now
    /\ monthSessions = <<>>
    /\ calendarData = calendarDataOf(now, <<>>, now)
    /\ monthlyStats = monthlyStatsOf(<<>>, now)
    /\ isCurrentMonth = isCurrentMonthOf(now, now)
    /\ canNavigateNext = canNavigateNextOf(now, now)

NextMonth ==
    \/ \E u \in UserIds : monthSelectUser(u)
    \/ monthClearUser
    \/ (MonthOrdinal(now) - MonthOrdinal(currentMonth) < MaxMonthsBack /\ navigateMonthPrev)
    \/ navigateMonthNext
    \/ goToCurrentMonth

SpecMonth == InitMonth /\ [][NextMonth]_vars

(***************************************************************************)
(* Properties of the month grid and of the monthly statistics              *)
(***************************************************************************)
\* the day numbers of the first day of the displayed month and of the next
MonthFirstDay == DaysFromCivil(getFullYear(currentMonth), getMonth(currentMonth) + 1, 1)

MonthEndDay ==
    LET o == MonthOrdinal(currentMonth) + 1
    IN  DaysFromCivil(o \div 12, (o % 12) + 1, 1)

\* the indices of the grid that show local day number d
CellsOfDay(d) == {i \in 1..Len(calendarData) : LocalDay(calendarData[i].fullDate) = d}

Sunday == 0

Monday == 1

\* the grid is a whole number of weeks beginning on weekday weekStartsOn,
\* with the days of the month marked once each
GridIsWholeWeeksFrom(weekStartsOn) ==
    LET n == Len(calendarData)
    IN  /\ n % 7 = 0 /\ n >= 28 /\ n <= 42
        /\ getDay(calendarData[1].fullDate) = weekStartsOn
        /\ \A i \in 1..(n - 1) :
               LocalDay(calendarData[i + 1].fullDate)
                   = LocalDay(calendarData[i].fullDate) + 1
        /\ \A d \in MonthFirstDay..(MonthEndDay - 1) :
               /\ Cardinality(CellsOfDay(d)) = 1
               /\ \A i \in CellsOfDay(d) : calendarData[i].isCurrentMonth
        /\ \A i \in 1..n :
               calendarData[i].isCurrentMonth
                   <=> LocalDay(calendarData[i].fullDate) \in MonthFirstDay..(MonthEndDay - 1)

\* C11: for every anchor month and for each week-start convention, Monday
\* or Sunday, the grid is a run of consecutive days that begins on the
\* weekStartsOn weekday, of a length that is a multiple of 7 between 28 and
\* 42, in which every day of the month appears exactly once as a day of the
\* current period and every other day is not of the current period; so for
\* February 2024 with Sunday start.
C11_GridIsWholeWeeksOfEitherConvention ==
    \A weekStartsOn \in {Monday, Sunday} : GridIsWholeWeeksFrom(weekStartsOn)

\* C12: each day of the grid holds exactly the input sessions whose date key
\* is that day's own calendar date, and its totalMinutes is their sum; so
\* every input session dated inside the grid range appears under exactly one
\* day, the one it is dated on.
C12_DayBucketsMatchOwnDate ==
    /\ \A i \in 1..Len(calendarData) :
           LET own == SessionsDated(monthSessions, toDateString(calendarData[i].fullDate))
           IN  /\ calendarData[i].sessions = own
               /\ calendarData[i].totalMinutes = TotalOver(1..Len(own), own)
    /\ \A k \in 1..Len(monthSessions) :
           (\E i \in 1..Len(calendarData) :
                toDateString(calendarData[i].fullDate) = monthSessions[k].date)
           => Cardinality({i \in 1..Len(calendarData) :
                              \E j \in 1..Len(calendarData[i].sessions) :
                                  calendarData[i].sessions[j].id = monthSessions[k].id}) = 1

\* the weekdays of the displayed month, counted on the calendar
WeekdaysOfMonth ==
    Cardinality({d \in MonthFirstDay..(MonthEndDay - 1) : (d + 4) % 7 \notin {0, 6}})

\* C13: workingDaysInMonth is the number of days of the anchor's calendar
\* month that are neither Saturday nor Sunday, for every month and whatever
\* the anchor's day of the month (a value between 20 and 23), and the
\* monthly expected minutes are workingDays * 480.
C13_WorkingDaysAreWeekdays ==
    /\ monthlyStats.workingDaysInMonth = WeekdaysOfMonth
    /\ monthlyStats.workingDaysInMonth \in 20..23
    /\ monthlyStats.expectedMinutes = monthlyStats.workingDaysInMonth * ExpectedDailyMinutes

\* a month of 20 working days shown from an anchor that is not its first day
C13_Witness ==
    /\ currentMonth # now
    /\ getDate(currentMonth) > 1
    /\ monthlyStats.workingDaysInMonth = 20
    /\ monthlyStats.expectedMinutes = 9600

(***************************************************************************)
(* The list of users a view may select from (fetchAvailableUsers, the same *)
(* in the weekly, the monthly and the analytics view)                      *)
(***************************************************************************)
\* user?.role
RoleOf(u) == IF u = Null THEN Undefined ELSE u.role

\* the list without the filter on the role
AvailableUsersOf_WithAdmins(u) ==
    IF RoleOf(u) = "admin" THEN usersStore
    ELSE SelectSeq(usersStore, LAMBDA d : d.managerId = u.id)

\* the users the view keeps: all of them for an admin; for a manager those
\* of the query managerId == user.id, without the admins
AvailableUsersOf(u) ==
    IF RoleOf(u) = "admin" THEN usersStore
    ELSE SelectSeq(usersStore,
                   LAMBDA d : d.managerId = u.id /\ d.role # "admin")

\* the ids of a list of users, in its order
IdsOf(us) == [i \in 1..Len(us) |-> us[i].id]

InSeq(x, xs) == \E i \in 1..Len(xs) : xs[i] = x

(***************************************************************************)
(* AnalyticsReports: the sessions of the selected users and the ranking    *)
(***************************************************************************)
\* sessions.filter(s => s.userId === userId)
\*         .reduce((acc, s) => acc + (s.totalMinutes - s.idleMinutes), 0)
RECURSIVE TotalActiveMinutesOf(_, _)
TotalActiveMinutesOf(ss, userId) ==
    IF Len(ss) = 0 THEN 0
    ELSE TotalActiveMinutesOf(SubSeq(ss, 1, Len(ss) - 1), userId)
         + (IF ss[Len(ss)].userId = userId
            THEN ss[Len(ss)].totalMinutes - ss[Len(ss)].idleMinutes ELSE 0)

\* userStats.get(session.userId) || { totalHours: 0, productivityRate: 0, sessions: 0 }
ExistingEntry(userStats, userId) ==
    IF \E i \in 1..Len(userStats) : userStats[i].userId = userId
    THEN userStats[CHOOSE i \in 1..Len(userStats) : userStats[i].userId = userId]
    ELSE [userId |-> userId, totalHours |-> FZero, productivityRate |-> 0,
          sessions |-> 0]

\* the rate written after a session: the hours so far times 60 against the
\* active minutes of all the user's sessions
RateOfMinutes(totalMinutes, totalActiveMinutes) ==
    IF totalMinutes.sgn > 0
    THEN MathRound(FMul(FDivF(FromInt(totalActiveMinutes), totalMinutes), 100))
    ELSE 0

\* const totalMinutes = existing.totalHours * 60
RateOfHours(totalHours, totalActiveMinutes) ==
    RateOfMinutes(FMul(totalHours, 60), totalActiveMinutes)

\* the entry after one more session of its user
EntryOfHours(existing, totalHours, totalActiveMinutes) ==
    [userId           |-> existing.userId,
     totalHours       |-> totalHours,
     productivityRate |-> RateOfHours(totalHours, totalActiveMinutes),
     sessions         |-> existing.sessions + 1]

\* existing.totalHours += session.totalMinutes / 60
EntryWith(existing, session, totalActiveMinutes) ==
    EntryOfHours(existing,
                 FAdd(existing.totalHours, NumDiv(session.totalMinutes, 60)),
                 totalActiveMinutes)

\* userStats.set(userId, entry): a Map keeps its keys in insertion order
MapSet(userStats, entry) ==
    IF \E i \in 1..Len(userStats) : userStats[i].userId = entry.userId
    THEN [i \in 1..Len(userStats) |->
             IF userStats[i].userId = entry.userId THEN entry ELSE userStats[i]]
    ELSE Append(userStats, entry)

\* one pass of the forEach body over a session of a known user
WithSession(userStats, session, totalActiveMinutes) ==
    MapSet(userStats,
           EntryWith(ExistingEntry(userStats, session.userId), session,
                     totalActiveMinutes))

\* sessions.forEach over the first k sessions
RECURSIVE UserStatsOf(_, _, _)
UserStatsOf(ss, us, k) ==
    IF k = 0 THEN <<>>
    ELSE IF ~InSeq(ss[k].userId, IdsOf(us)) THEN UserStatsOf(ss, us, k - 1)
    ELSE WithSession(UserStatsOf(ss, us, k - 1), ss[k],
                     TotalActiveMinutesOf(ss, ss[k].userId))

\* how many entries the sort places before entry i
SortedBefore(es, i) ==
    Cardinality({j \in 1..Len(es) :
        \/ es[j].productivityRate > es[i].productivityRate
        \/ es[j].productivityRate = es[i].productivityRate /\ j < i})

\* .sort((a, b) => b.productivityRate - a.productivityRate): the sort is
\* stable, entries of the same rate keep their order
SortedByRate(es) ==
    [k \in 1..Len(es) |-> es[CHOOSE i \in 1..Len(es) : SortedBefore(es, i) = k - 1]]

\* .slice(0, 5)
TopLimit == 5

Sliced(es) == SubSeq(es, 1, IF Len(es) < TopLimit THEN Len(es) ELSE TopLimit)

topPerformersOf(ss, us) == Sliced(SortedByRate(UserStatsOf(ss, us, Len(ss))))

\* querySnapshot.docs.map(...)
SessionsOfSnapshot(snapshot) ==
    [i \in 1..Len(snapshot) |-> DatedSessionOfDoc(snapshot[i])]

\* fetchAnalyticsData: the sessions of each selected user in the date range,
\* one query after the other in the order of the selection
RECURSIVE AnalyticsSessionsOf(_, _)
AnalyticsSessionsOf(selected, range) ==
    IF Len(selected) = 0 THEN <<>>
    ELSE AnalyticsSessionsOf(SubSeq(selected, 1, Len(selected) - 1), range)
         \o SessionsOfSnapshot(QuerySessions(selected[Len(selected)],
                                             toISODate(range.start),
                                             toISODate(range.end)))

\* the effect on [selectedUsers, dateRange] and the render that follows
ReportRendered(selected, range, us) ==
    /\ reportSessions' = AnalyticsSessionsOf(selected, range)
    /\ topPerformers' = topPerformersOf(reportSessions', us)

\* the frame of an action of the analytics view
ReportFrame ==
    /\ UNCHANGED <<sessionVars, weekVars, store, monthVars>>
    /\ UNCHANGED <<appVars, listVars, fetchVars, extVars>>

\* fetchAvailableUsers of the analytics view, run by the effect on [user]:
\* every user of the list is selected, and their sessions are fetched
reportFetchAvailableUsers ==
    /\ reportLoading
    /\ reportLoading' = FALSE
    /\ IF RoleOf(user) \in {"admin", "manager"}
       THEN /\ reportUsers' = AvailableUsersOf(user)
            /\ selectedUsers' = IdsOf(AvailableUsersOf(user))
            /\ ReportRendered(IdsOf(AvailableUsersOf(user)), dateRange,
                              AvailableUsersOf(user))
       ELSE UNCHANGED <<reportUsers, selectedUsers, reportSessions, topPerformers>>
    /\ UNCHANGED dateRange
    /\ ReportFrame

\* setSelectedUsers(options): the effect fetches, or empties the list
setSelectedUsers(selected) ==
    /\ ~reportLoading
    /\ selectedUsers' = selected
    /\ ReportRendered(selected, dateRange, reportUsers)
    /\ UNCHANGED <<reportUsers, reportLoading, dateRange>>
    /\ ReportFrame

\* how long a selection the model still lets grow
MaxReselected == 2

\* the multi-select: an option is added at the end of the selection
selectOption(userId) ==
    /\ InSeq(userId, IdsOf(reportUsers))
    /\ ~InSeq(userId, selectedUsers)
    /\ Len(selectedUsers) < MaxReselected
    /\ setSelectedUsers(Append(selectedUsers, userId))

\* the multi-select: an option is removed
removeOption(userId) ==
    /\ InSeq(userId, selectedUsers)
    /\ setSelectedUsers(SelectSeq(selectedUsers, LAMBDA id : id # userId))

\* the options of the date range, as built by the render at the instant at
dateRangeOptions(at) ==
    [last7days  |-> [start |-> at - 7 * 24, end |-> at],
     last30days |-> [start |-> at - 30 * 24, end |-> at],
     last90days |-> [start |-> at - 90 * 24, end |-> at],
     thisMonth  |-> [start |-> NewDate(getFullYear(at), getMonth(at), 1), end |-> at],
     lastMonth  |-> [start |-> NewDate(getFullYear(at), getMonth(at) - 1, 1),
                     end   |-> NewDate(getFullYear(at), getMonth(at), 0)]]

handleDateRangeChange(option) ==
    /\ ~reportLoading
    /\ dateRange' = dateRangeOptions(now)[option]
    /\ ReportRendered(selectedUsers, dateRangeOptions(now)[option], reportUsers)
    /\ UNCHANGED <<reportUsers, reportLoading, selectedUsers>>
    /\ ReportFrame

\* The analytics view of a manager, over a users collection in which one
\* manager has six reports and the other one, and a sessions collection
\* holding, newest first, sessions of the last week, month and quarter.
UserDoc(id, role, managerId) == [id |-> id, role |-> role, managerId |-> managerId]

AnalyticsUsers ==
    <<UserDoc("a1", "admin", "m1"),
      UserDoc("e1", "employee", "m1"), UserDoc("e2", "employee", "m1"),
      UserDoc("e3", "employee", "m1"), UserDoc("e4", "employee", "m1"),
      UserDoc("e5", "employee", "m1"), UserDoc("e6", "employee", "m1"),
      UserDoc("e7", "employee", "m2"),
      UserDoc("m1", "manager", Undefined), UserDoc("m2", "manager", Undefined)>>

AnalyticsStore ==
    <<StoredDoc(1, "e1", <<2024, 1, 8>>, Num(240), Num(30), "submitted"),
      StoredDoc(2, "e2", <<2024, 1, 8>>, Num(248), Num(31), "submitted"),
      StoredDoc(3, "e3", <<2024, 1, 8>>, Num(480), Num(60), "approved"),
      StoredDoc(4, "e4", <<2024, 1, 8>>, Num(480), Num(0), "submitted"),
      StoredDoc(5, "e5", <<2024, 1, 8>>, Num(300), Num(300), "disapproved"),
      StoredDoc(6, "e5", <<2024, 1, 8>>, Num(0), Num(0), "submitted"),
      StoredDoc(7, "e7", <<2024, 1, 8>>, Num(45), Num(5), "submitted"),
      StoredDoc(8, "a1", <<2024, 1, 8>>, Num(480), Num(0), "submitted"),
      StoredDoc(9, "e4", <<2023, 12, 20>>, Num(120), Num(60), "approved"),
      StoredDoc(10, "e7", <<2023, 12, 20>>, Num(0 - 20), Missing, "submitted"),
      StoredDoc(11, "e6", <<2023, 11, 15>>, Num(60), Num(90), "submitted")>>

Managers == {[id |-> "m1", role |-> "manager"], [id |-> "m2", role |-> "manager"]}

DateRangeOptions == {"last7days", "last30days", "last90days", "thisMonth", "lastMonth"}

InitAnalytics ==
    /\ Mounted(0, ClockStart)
    /\ WeeklyViewIdle
    /\ store = AnalyticsStore
    /\ monthUser = ""
    /\ currentMonth = now
    /\ monthSessions = <<>>
    /\ calendarData = <<>>
    /\ monthlyStats = Null
    /\ isCurrentMonth = TRUE
    /\ canNavigateNext = FALSE
    /\ user \in Managers
    /\ loading = FALSE
    /\ activeTab = "reports"
    /\ tabEffect = FALSE
    /\ usersStore = AnalyticsUsers
    /\ users = <<>>
    /\ weekLoading = FALSE
    /\ monthUsers = <<>>
    /\ monthLoading = FALSE
    /\ reportUsers = <<>>
    /\ reportLoading = TRUE
    /\ selectedUsers = <<>>
    /\ dateRange = dateRangeOptions(now).last30days
    /\ reportSessions = <<>>
    /\ topPerformers = <<>>
    /\ inflight = {}
    /\ monthInflight = {}
    /\ NothingElse

NextAnalytics ==
    \/ reportFetchAvailableUsers
    \/ \E u \in {AnalyticsUsers[i].id : i \in 1..Len(AnalyticsUsers)} : selectOption(u)
    \/ \E u \in {AnalyticsUsers[i].id : i \in 1..Len(AnalyticsUsers)} : removeOption(u)
    \/ \E option \in DateRangeOptions : handleDateRangeChange(option)

SpecAnalytics == InitAnalytics /\ [][NextAnalytics]_vars

\* the place of a user id in the ascending order of the ids, which is the
\* order of the users collection
IdRank(userId) == CHOOSE i \in 1..Len(usersStore) : usersStore[i].id = userId

\* a > b for two finite numbers
FGreater(a, b) == FAdd(a, [b EXCEPT !.sgn = 0 - b.sgn]).sgn > 0

\* a stands before b in a ranking by rate, then hours, then id
RankedBefore(a, b) ==
    \/ a.productivityRate > b.productivityRate
    \/ /\ a.productivityRate = b.productivityRate
       /\ \/ FGreater(a.totalHours, b.totalHours)
          \/ /\ a.totalHours = b.totalHours
             /\ IdRank(a.userId) < IdRank(b.userId)

\* the list with its elements k and k + 1 exchanged
Exchanged(xs, k) ==
    [i \in 1..Len(xs) |-> IF i = k THEN xs[k + 1] ELSE IF i = k + 1 THEN xs[k] ELSE xs[i]]

\* C14: the ranking holds at most TopLimit users; every user in it stands
\* before the next by productivityRate descending, then total hours
\* descending, then user id ascending; and the ranking is the same when any
\* two neighbouring sessions of the input change places.
C14_RankingIsOrderedWhateverTheInputOrder ==
    /\ Len(topPerformers) <= TopLimit
    /\ \A i \in 1..Len(topPerformers) : \A j \in 1..Len(topPerformers) :
           i < j => RankedBefore(topPerformers[i], topPerformers[j])
    /\ \A k \in 1..(Len(reportSessions) - 1) :
           topPerformersOf(Exchanged(reportSessions, k), reportUsers) = topPerformers

\* sessions.filter(s => s.userId === userId)
SessionsOfUser(ss, userId) == SelectSeq(ss, LAMBDA x : x.userId = userId)

\* C15: every ranked user has at least one of the fetched sessions, stands
\* in the ranking once, and has the productivityRate that the summary
\* statistics give for that user's sessions alone.
C15_RankedUsersHaveTheirSummaryRate ==
    \A i \in 1..Len(topPerformers) :
        /\ Len(SessionsOfUser(reportSessions, topPerformers[i].userId)) > 0
        /\ \A j \in 1..Len(topPerformers) :
               topPerformers[j].userId = topPerformers[i].userId => j = i
        /\ topPerformers[i].productivityRate =
               statsOf(SessionsOfUser(reportSessions,
                                      topPerformers[i].userId)).productivityRate

\* the stored document a fetched session was built from
DocOfSession(x) == store[CHOOSE i \in 1..Len(store) : store[i].id = x.id]

\* a stored number, 0 when it is negative or missing
ZeroUnlessPositive(f) == IF f.has /\ f.val > 0 THEN f.val ELSE 0

\* C16: every fetched session has 0 for a totalMinutes or idleMinutes that
\* is negative or missing in its stored document, and its stored value
\* otherwise; and no total, rate or average computed from the fetched
\* sessions is negative.
C16_NegativeOrMissingCountsAsZero ==
    /\ \A i \in 1..Len(reportSessions) :
           /\ reportSessions[i].totalMinutes =
                  ZeroUnlessPositive(DocOfSession(reportSessions[i]).totalMinutes)
           /\ reportSessions[i].idleMinutes =
                  ZeroUnlessPositive(DocOfSession(reportSessions[i]).idleMinutes)
    /\ statsOf(reportSessions).totalMinutes >= 0
    /\ statsOf(reportSessions).idleMinutes >= 0
    /\ statsOf(reportSessions).activeMinutes >= 0
    /\ statsOf(reportSessions).productivityRate >= 0
    /\ statsOf(reportSessions).averageSessionLength.sgn >= 0
    /\ \A i \in 1..Len(topPerformers) : topPerformers[i].productivityRate >= 0

(***************************************************************************)
(* AppContent: what is on screen for the signed-in user and the active tab *)
(***************************************************************************)
\* the content without the test of the role: one switch for everybody
AppContentOf_OneSwitch(isLoading, u, tab) ==
    IF isLoading THEN "LoadingScreen"
    ELSE IF u = Null THEN "LoginForm"
    ELSE IF u.role = "employee" THEN "AccessDenied"
    ELSE CASE tab = "users"      -> "UserManagement"
           [] tab = "timesheets" -> "TimesheetManagement"
           [] tab = "monthly"    -> "MonthlyTimesheet"
           [] tab = "activity"   -> "ComingSoon"
           [] tab = "settings"   -> "ComingSoon"
           [] tab = "calendar"   -> "ComingSoon"
           [] tab = "reports"    -> "AnalyticsReports"
           [] OTHER              -> "UserManagement"

\* what AppContent returns: a screen, or the shell around renderContent()
AppContentOf(isLoading, u, tab) ==
    IF isLoading THEN "LoadingScreen"
    ELSE IF u = Null THEN "LoginForm"
    ELSE IF u.role = "employee" THEN "AccessDenied"
    ELSE IF u.role = "admin"
    THEN CASE tab = "users"      -> "UserManagement"
           [] tab = "timesheets" -> "TimesheetManagement"
           [] tab = "monthly"    -> "MonthlyTimesheet"
           [] tab = "activity"   -> "ComingSoon"
           [] tab = "settings"   -> "ComingSoon"
           [] OTHER              -> "UserManagement"
    ELSE IF u.role = "manager"
    THEN CASE tab = "timesheets" -> "TimesheetManagement"
           [] tab = "monthly"    -> "MonthlyTimesheet"
           [] tab = "calendar"   -> "ComingSoon"
           [] tab = "reports"    -> "AnalyticsReports"
           [] OTHER              -> "TimesheetManagement"
    ELSE "Nothing"

\* Sidebar: the tabs offered to the signed-in user
adminTabs == {"users", "timesheets", "monthly", "activity", "settings"}

managerTabs == {"timesheets", "monthly", "calendar", "reports"}

tabsOf(u) == IF RoleOf(u) = "admin" THEN adminTabs ELSE managerTabs

\* the views that are the pages of the dashboard
DashboardViews == {"UserManagement", "TimesheetManagement", "MonthlyTimesheet",
                   "AnalyticsReports", "ComingSoon"}

\* the state of the weekly view: as constructed when it is on screen, and
\* nothing when it is not
WeeklyConstructed(mounted) ==
    /\ selectedUser' = ""
    /\ Rendered(<<>>)
    /\ selectedSession' = Null
    /\ showSessionModal' = FALSE
    /\ metrics' = Null
    /\ currentWeek' = now
    /\ weekCalculations' = weekCalculationsOf(now, now)
    /\ queryRange' = Null
    /\ users' = <<>>
    /\ weekLoading' = mounted
    /\ inflight' = {}

MonthlyConstructed(mounted) ==
    /\ monthUser' = ""
    /\ currentMonth' = now
    /\ monthSessions' = <<>>
    /\ calendarData' = IF mounted THEN calendarDataOf(now, <<>>, now) ELSE <<>>
    /\ monthlyStats' = IF mounted THEN monthlyStatsOf(<<>>, now) ELSE Null
    /\ isCurrentMonth' = TRUE
    /\ canNavigateNext' = FALSE
    /\ monthUsers' = <<>>
    /\ monthLoading' = mounted
    /\ monthInflight' = {}

ReportsConstructed(mounted) ==
    /\ reportUsers' = <<>>
    /\ reportLoading' = mounted
    /\ selectedUsers' = <<>>
    /\ dateRange' = dateRangeOptions(now).last30days
    /\ reportSessions' = <<>>
    /\ topPerformers' = <<>>

\* the state of the user management view as constructed
UsersConstructed(mounted) ==
    /\ managedUsers' = <<>>
    /\ usersLoading' = mounted
    /\ editUser' = Null
    /\ formData' = Null
    /\ userInflight' = {}

viewVars == <<selectedUser, sessions, stats, rowRates, selectedSession,
              showSessionModal, metrics, currentWeek, weekCalculations,
              queryRange, monthVars, listVars, analyticsVars, fetchVars,
              adminVars>>

\* a render of AppContent: a view that stays on screen keeps its state, a
\* view that comes on screen is constructed, the others are gone
ViewsConstructed(after) ==
    /\ WeeklyConstructed(after = "TimesheetManagement")
    /\ MonthlyConstructed(after = "MonthlyTimesheet")
    /\ ReportsConstructed(after = "AnalyticsReports")
    /\ UsersConstructed(after = "UserManagement")

ViewsRendered ==
    IF AppContentOf(loading', user', activeTab') = AppContentOf(loading, user, activeTab)
    THEN UNCHANGED viewVars
    ELSE ViewsConstructed(AppContentOf(loading', user', activeTab'))

AppRendered ==
    /\ ViewsRendered
    /\ UNCHANGED <<docs, tz, now, store, usersStore, stillVars>>

\* the authentication state is resolved: nobody, or the user of the session
authResolved(u) ==
    /\ loading
    /\ loading' = FALSE
    /\ user' = u
    /\ tabEffect' = (u # Null)
    /\ UNCHANGED activeTab
    /\ AppRendered

\* LoginForm: a user signs in
signIn(u) ==
    /\ ~loading
    /\ user = Null
    /\ user' = u
    /\ tabEffect' = TRUE
    /\ UNCHANGED <<loading, activeTab>>
    /\ AppRendered

\* signOut, from the sidebar or the access-denied screen
signOut ==
    /\ ~loading
    /\ user # Null
    /\ ~tabEffect
    /\ user' = Null
    /\ UNCHANGED <<loading, activeTab, tabEffect>>
    /\ AppRendered

\* the effect on [user]: the first tab of the role
userEffect ==
    /\ tabEffect
    /\ tabEffect' = FALSE
    /\ activeTab' = IF RoleOf(user) = "admin" THEN "users"
                    ELSE IF RoleOf(user) = "manager" THEN "timesheets"
                    ELSE activeTab
    /\ UNCHANGED <<loading, user>>
    /\ AppRendered

\* Sidebar: a click on a tab
onTabChange(tabId) ==
    /\ ~tabEffect
    /\ AppContentOf(loading, user, activeTab) \in DashboardViews \cup {"Nothing"}
    /\ tabId \in tabsOf(user)
    /\ activeTab' = tabId
    /\ UNCHANGED <<loading, user, tabEffect>>
    /\ AppRendered

\* fetchAvailableUsers of the weekly view, run by its effect on [user]
weekFetchAvailableUsers ==
    /\ weekLoading
    /\ weekLoading' = FALSE
    /\ users' = IF RoleOf(user) \in {"admin", "manager"}
                THEN AvailableUsersOf(user) ELSE users
    /\ UNCHANGED <<monthUsers, monthLoading>>
    /\ UNCHANGED <<sessionVars, weekVars, store, monthVars>>
    /\ UNCHANGED <<appVars, analyticsVars, fetchVars, extVars>>

\* fetchAvailableUsers of the monthly view
monthFetchAvailableUsers ==
    /\ monthLoading
    /\ monthLoading' = FALSE
    /\ monthUsers' = IF RoleOf(user) \in {"admin", "manager"}
                     THEN AvailableUsersOf(user) ELSE monthUsers
    /\ UNCHANGED <<users, weekLoading>>
    /\ UNCHANGED <<sessionVars, weekVars, store, monthVars>>
    /\ UNCHANGED <<appVars, analyticsVars, fetchVars, extVars>>

\* the select of the weekly view: its options are the users of the list
chooseUser(userId) ==
    /\ InSeq(userId, IdsOf(users))
    /\ selectUser(userId)

\* the select of the monthly view
monthChooseUser(userId) ==
    /\ InSeq(userId, IdsOf(monthUsers))
    /\ monthSelectUser(userId)

\* The application from the loading screen on, with an admin, a manager and
\* an employee who may sign in.
Accounts == {[id |-> "a1", role |-> "admin"], [id |-> "m1", role |-> "manager"],
             [id |-> "e1", role |-> "employee"]}

InitApp ==
    /\ Mounted(0, ClockStart)
    /\ WeeklyViewIdle
    /\ store = AnalyticsStore
    /\ monthUser = ""
    /\ currentMonth = now
    /\ monthSessions = <<>>
    /\ calendarData = <<>>
    /\ monthlyStats = Null
    /\ isCurrentMonth = TRUE
    /\ canNavigateNext = FALSE
    /\ user = Null
    /\ loading = TRUE
    /\ activeTab = ""
    /\ tabEffect = FALSE
    /\ usersStore = AnalyticsUsers
    /\ users = <<>>
    /\ weekLoading = FALSE
    /\ monthUsers = <<>>
    /\ monthLoading = FALSE
    /\ reportUsers = <<>>
    /\ reportLoading = FALSE
    /\ selectedUsers = <<>>
    /\ dateRange = dateRangeOptions(now).last30days
    /\ reportSessions = <<>>
    /\ topPerformers = <<>>
    /\ inflight = {}
    /\ monthInflight = {}
    /\ NothingElse

AllUserIds == {AnalyticsUsers[i].id : i \in 1..Len(AnalyticsUsers)}

NextApp ==
    \/ \E u \in Accounts \cup {Null} : authResolved(u)
    \/ \E u \in Accounts : signIn(u)
    \/ signOut
    \/ userEffect
    \/ \E tabId \in adminTabs \cup managerTabs : onTabChange(tabId)
    \/ weekFetchAvailableUsers
    \/ monthFetchAvailableUsers
    \/ reportFetchAvailableUsers
    \/ \E u \in AllUserIds : chooseUser(u)
    \/ clearUser
    \/ \E u \in AllUserIds : monthChooseUser(u)
    \/ monthClearUser
    \/ \E u \in AllUserIds : selectOption(u)
    \/ \E u \in AllUserIds : removeOption(u)

SpecApp == InitApp /\ [][NextApp]_vars

\* every value the active tab can have
AllTabs == adminTabs \cup managerTabs \cup {""}

\* C17: whatever the active tab, a signed-out user gets the login form, an
\* employee the access-denied screen, a page of the dashboard is shown only
\* to an admin or a manager, and a manager never gets the user management.
C17_ViewsFollowTheRole ==
    \A tab \in AllTabs :
        LET view == AppContentOf(loading, user, tab)
        IN  /\ (~loading /\ user = Null) => view = "LoginForm"
            /\ (~loading /\ RoleOf(user) = "employee") => view = "AccessDenied"
            /\ view \in DashboardViews => RoleOf(user) \in {"admin", "manager"}
            /\ RoleOf(user) = "manager" => view # "UserManagement"

\* a manager is signed in while the active tab is still the admin's
C17_Witness ==
    /\ ~loading
    /\ RoleOf(user) = "manager"
    /\ activeTab = "users"
    /\ AppContentOf(loading, user, activeTab) = "TimesheetManagement"

\* the users of a list are what the role of the signed-in user allows
ListAllowed(us) ==
    /\ RoleOf(user) = "manager" =>
           \A i \in 1..Len(us) : us[i].managerId = user.id /\ us[i].role # "admin"
    /\ RoleOf(user) \notin {"admin", "manager"} => us = <<>>

MaxInflight == 2

\* fetchUserSessions(userId) as called by the effect: the range is that of
\* the currentWeek of the render
FetchCall(userId, week) ==
    [kind |-> "fetch", userId |-> userId, range |-> getWeekDateRange(week)]

\* handleSessionUpdate(sessionId, updates); origin: "row" when called by
\* the row menu, "modal" when called by the modal on screen, which closes
\* itself once the call has resolved, "closed" once that modal is gone
UpdateCall(sessionId, updates, origin) ==
    [kind |-> "update", id |-> sessionId, updates |-> updates, origin |-> origin,
     n |-> 0]

\* calls with the same arguments are told apart by a number
SameArguments(a, b) ==
    a.kind = "update" /\ a.id = b.id /\ a.updates = b.updates

Numbered(call, calls) ==
    [call EXCEPT !.n = CHOOSE n \in 0..Cardinality(calls) :
                           /\ \A c \in calls : SameArguments(c, call) => c.n # n
                           /\ \A m \in 0..(n - 1) :
                                  \E c \in calls : SameArguments(c, call) /\ c.n = m]

\* what the sessions query of a call answers with
WeeklySessionsOf(call) ==
    SessionsOfSnapshot(QuerySessions(call.userId, call.range.start, call.range.end))

WeekFrame ==
    UNCHANGED <<docs, tz, now, monthVars, appVars, listVars, analyticsVars, monthInflight,
                outerVars>>

\* the effect on [selectedUser, currentWeek]
fetchEffect(userId, week) ==
    IF userId # ""
    THEN /\ inflight' = inflight \cup {FetchCall(userId, week)}
         /\ UNCHANGED <<sessions, stats, rowRates>>
    ELSE /\ Rendered(<<>>)
         /\ UNCHANGED inflight

\* the select of the weekly view, or its clear button: setSelectedUser
changeSelectedUser(userId) ==
    /\ AppContentOf(loading, user, activeTab) = "TimesheetManagement"
    /\ userId # selectedUser
    /\ userId = "" \/ InSeq(userId, IdsOf(users))
    /\ Cardinality(inflight) < MaxInflight
    /\ selectedUser' = userId
    /\ fetchEffect(userId, currentWeek)
    /\ UNCHANGED <<selectedSession, showSessionModal, metrics, store>>
    /\ UNCHANGED <<currentWeek, weekCalculations, queryRange>>
    /\ UNCHANGED extVars
    /\ WeekFrame

\* setCurrentWeek(week) with the fetch of its effect under way
changeCurrentWeek(week) ==
    /\ AppContentOf(loading, user, activeTab) = "TimesheetManagement"
    /\ Cardinality(inflight) < MaxInflight
    /\ currentWeek' = week
    /\ weekCalculations' = weekCalculationsOf(week, now)
    /\ fetchEffect(selectedUser, week)
    /\ UNCHANGED <<selectedUser, selectedSession, showSessionModal, metrics, store>>
    /\ UNCHANGED queryRange
    /\ UNCHANGED extVars
    /\ WeekFrame

\* getDocs of a fetchUserSessions call resolves: setSessions
fetchResolved(call) ==
    /\ call \in inflight
    /\ call.kind = "fetch"
    /\ inflight' = inflight \ {call}
    /\ queryRange' = call.range
    /\ Rendered(WeeklySessionsOf(call))
    /\ UNCHANGED <<selectedUser, selectedSession, showSessionModal, metrics, store>>
    /\ UNCHANGED <<currentWeek, weekCalculations>>
    /\ UNCHANGED extVars
    /\ WeekFrame

\* a string value, told apart from null
Str(chars) == [str |-> chars]

Whitespace == {" "}

RECURSIVE TrimStart(_)
TrimStart(chars) ==
    IF chars # <<>> /\ Head(chars) \in Whitespace THEN TrimStart(Tail(chars)) ELSE chars

RECURSIVE TrimEnd(_)
TrimEnd(chars) ==
    IF chars # <<>> /\ chars[Len(chars)] \in Whitespace
    THEN TrimEnd(SubSeq(chars, 1, Len(chars) - 1)) ELSE chars

\* String.prototype.trim
Trim(chars) == TrimEnd(TrimStart(chars))

\* a call is started and the render of the table does not change
CallStarted(call) ==
    /\ Cardinality(inflight) < MaxInflight
    /\ inflight' = inflight \cup {Numbered(call, inflight)}
    /\ UNCHANGED <<selectedUser, sessions, stats, rowRates, selectedSession,
                   showSessionModal, metrics, store>>
    /\ UNCHANGED <<currentWeek, weekCalculations, queryRange>>
    /\ WeekFrame

\* the updates of the row menu's Quick Approve
QuickApproval == [status |-> "approved", approvalStatus |-> "approved"]

\* the updates of the modal's handleApprove
Approval ==
    [status |-> "approved", approvalStatus |-> "approved", managerComment |-> Null]

\* the updates of the modal's handleDisapprove
Disapproval(reason) ==
    [status |-> "disapproved", approvalStatus |-> "disapproved",
     managerComment |-> Str(reason)]

\* the review block of the modal is rendered
ReviewOffered ==
    /\ selectedSession # Null
    /\ selectedSession.status = "submitted"

\* the row menu's Quick Approve, shown while the row's status is submitted
quickApprove(i) ==
    /\ selectedSession = Null
    /\ i \in 1..Len(sessions)
    /\ sessions[i].status = "submitted"
    /\ CallStarted(UpdateCall(sessions[i].id, QuickApproval, "row"))
    /\ UNCHANGED <<modalVars, toasts>>

\* the modal's Disapprove Session button: setShowDisapprovalForm(true)
showDisapproval ==
    /\ ReviewOffered
    /\ ~showDisapprovalForm
    /\ showDisapprovalForm' = TRUE
    /\ UNCHANGED <<disapprovalReason, approving, disapproving, toasts>>
    /\ UNCHANGED <<sessionVars, weekVars, store, monthVars>>
    /\ UNCHANGED <<appVars, listVars, analyticsVars, fetchVars, outerVars>>

\* the form's Cancel button
cancelDisapproval ==
    /\ ReviewOffered
    /\ showDisapprovalForm
    /\ showDisapprovalForm' = FALSE
    /\ disapprovalReason' = <<>>
    /\ UNCHANGED <<approving, disapproving, toasts>>
    /\ UNCHANGED <<sessionVars, weekVars, store, monthVars>>
    /\ UNCHANGED <<appVars, listVars, analyticsVars, fetchVars, outerVars>>

\* the form's textarea: setDisapprovalReason(e.target.value)
setDisapprovalReason(value) ==
    /\ ReviewOffered
    /\ showDisapprovalForm
    /\ value # disapprovalReason
    /\ disapprovalReason' = value
    /\ UNCHANGED <<showDisapprovalForm, approving, disapproving, toasts>>
    /\ UNCHANGED <<sessionVars, weekVars, store, monthVars>>
    /\ UNCHANGED <<appVars, listVars, analyticsVars, fetchVars, outerVars>>

\* the modal's approve button, rendered beside Disapprove Session and
\* disabled while approving
handleApprove ==
    /\ ReviewOffered
    /\ ~showDisapprovalForm
    /\ ~approving
    /\ approving' = TRUE
    /\ CallStarted(UpdateCall(selectedSession.id, Approval, "modal"))
    /\ UNCHANGED <<showDisapprovalForm, disapprovalReason, disapproving, toasts>>

\* handleDisapprove, the handler of the form's confirm button, which is
\* disabled while disapproving: without a reason it returns at once
handleDisapprove_AnyReason ==
    /\ ReviewOffered
    /\ showDisapprovalForm
    /\ ~disapproving
    /\ disapproving' = TRUE
    /\ CallStarted(UpdateCall(selectedSession.id, Disapproval(disapprovalReason), "modal"))
    /\ UNCHANGED <<showDisapprovalForm, disapprovalReason, approving, toasts>>

handleDisapprove ==
    /\ ReviewOffered
    /\ showDisapprovalForm
    /\ ~disapproving
    /\ IF Trim(disapprovalReason) = <<>>
       THEN /\ toasts' = <<"Please provide a reason for disapproval">>
            /\ UNCHANGED <<sessionVars, weekVars, store, monthVars>>
            /\ UNCHANGED <<appVars, listVars, analyticsVars, fetchVars, modalVars,
                           outerVars>>
       ELSE /\ disapproving' = TRUE
            /\ CallStarted(UpdateCall(selectedSession.id, Disapproval(disapprovalReason), "modal"))
            /\ UNCHANGED <<showDisapprovalForm, disapprovalReason, approving, toasts>>

\* { ...x, ...updates }
Merged(x, updates) ==
    [f \in DOMAIN x \cup DOMAIN updates |->
        IF f \in DOMAIN updates THEN updates[f] ELSE x[f]]

\* what handleSessionUpdate makes of a session, or updateDoc of a document
Updated(x, call) == IF x.id = call.id THEN Merged(x, call.updates) ELSE x

\* the toast of the modal's handler after the one of handleSessionUpdate
ToastsOf(call, ofUpdate, ofApprove, ofDisapprove) ==
    IF call.origin = "row" THEN <<ofUpdate>>
    ELSE IF call.updates.status = "approved" THEN <<ofUpdate, ofApprove>>
    ELSE <<ofUpdate, ofDisapprove>>

\* updateDoc resolves: the document is written, handleSessionUpdate updates
\* the row, and the handler of the modal that made the call runs onClose
updateResolved(call) ==
    /\ call \in inflight
    /\ call.kind = "update"
    /\ store' = [i \in 1..Len(store) |-> Updated(store[i], call)]
    /\ Rendered([i \in 1..Len(sessions) |-> Updated(sessions[i], call)])
    /\ toasts' = ToastsOf(call, "Session updated successfully",
                          "Session approved successfully", "Session disapproved")
    /\ IF call.origin = "row"
       THEN /\ inflight' = inflight \ {call}
            /\ UNCHANGED <<selectedSession, showSessionModal, metrics, modalVars>>
       ELSE /\ inflight' = Abandoned(inflight \ {call})
            /\ ModalUnmounted
    /\ UNCHANGED <<selectedUser, currentWeek, weekCalculations, queryRange>>
    /\ WeekFrame

\* updateDoc rejects as it would if handleSessionUpdate did not rethrow:
\* the modal's handler goes on as after a success
updateRejected_Swallowed(call) ==
    /\ call \in inflight
    /\ call.kind = "update"
    /\ toasts' = ToastsOf(call, "Failed to update session",
                          "Session approved successfully", "Session disapproved")
    /\ IF call.origin = "row"
       THEN /\ inflight' = inflight \ {call}
            /\ UNCHANGED <<selectedSession, showSessionModal, metrics, modalVars>>
       ELSE /\ inflight' = Abandoned(inflight \ {call})
            /\ ModalUnmounted
    /\ UNCHANGED <<selectedUser, sessions, stats, rowRates, store>>
    /\ UNCHANGED <<currentWeek, weekCalculations, queryRange>>
    /\ WeekFrame

\* updateDoc rejects: handleSessionUpdate rethrows, nothing is updated, and
\* the handler of the modal, if that modal is still there, resets its state
updateRejected(call) ==
    /\ call \in inflight
    /\ call.kind = "update"
    /\ inflight' = inflight \ {call}
    /\ toasts' = ToastsOf(call, "Failed to update session",
                          "Failed to approve session", "Failed to disapprove session")
    /\ IF call.origin # "modal"
       THEN UNCHANGED modalVars
       ELSE IF call.updates.status = "approved"
       THEN /\ approving' = FALSE
            /\ UNCHANGED <<showDisapprovalForm, disapprovalReason, disapproving>>
       ELSE /\ disapproving' = FALSE
            /\ showDisapprovalForm' = FALSE
            /\ disapprovalReason' = <<>>
            /\ UNCHANGED approving
    /\ UNCHANGED <<selectedUser, sessions, stats, rowRates, selectedSession,
                   showSessionModal, metrics, store>>
    /\ UNCHANGED <<currentWeek, weekCalculations, queryRange>>
    /\ WeekFrame

\* fetchMonthlyUserSessions(userId) as called by the effect
MonthFetchCall(userId, month) == [userId |-> userId, month |-> month]

MonthFrame ==
    UNCHANGED <<sessionVars, weekVars, store, appVars, listVars, analyticsVars, inflight, extVars>>

\* the effect on [selectedUser, currentMonth] of the monthly view
monthFetchEffect(userId, month) ==
    IF userId # ""
    THEN /\ monthInflight' = monthInflight \cup {MonthFetchCall(userId, month)}
         /\ MonthRendered(month, monthSessions)
    ELSE /\ MonthRendered(month, <<>>)
         /\ UNCHANGED monthInflight

\* the select of the monthly view, or its clear button
monthChangeSelectedUser(userId) ==
    /\ AppContentOf(loading, user, activeTab) = "MonthlyTimesheet"
    /\ userId # monthUser
    /\ userId = "" \/ InSeq(userId, IdsOf(monthUsers))
    /\ Cardinality(monthInflight) < MaxInflight
    /\ monthUser' = userId
    /\ monthFetchEffect(userId, currentMonth)
    /\ UNCHANGED <<currentMonth, isCurrentMonth, canNavigateNext>>
    /\ MonthFrame

\* setCurrentMonth(month) with the fetch of its effect under way
changeCurrentMonth(month) ==
    /\ AppContentOf(loading, user, activeTab) = "MonthlyTimesheet"
    /\ Cardinality(monthInflight) < MaxInflight
    /\ currentMonth' = month
    /\ isCurrentMonth' = isCurrentMonthOf(month, now)
    /\ canNavigateNext' = canNavigateNextOf(month, now)
    /\ monthFetchEffect(monthUser, month)
    /\ UNCHANGED monthUser
    /\ MonthFrame

\* getDocs of a fetchMonthlyUserSessions call resolves: setSessions
monthFetchResolved(call) ==
    /\ call \in monthInflight
    /\ monthInflight' = monthInflight \ {call}
    /\ MonthRendered(currentMonth, MonthlySessionsOf(call.userId, call.month))
    /\ UNCHANGED <<monthUser, currentMonth, isCurrentMonth, canNavigateNext>>
    /\ MonthFrame

\* A manager's weekly or monthly view with its list of users loaded, over
\* the sessions of the analytics store; the manager goes back and forth
\* between two team members and over MaxPeriodsBack weeks or months.
MaxPeriodsBack == 1

FetchUsers == {"e1", "e4"}

\* the view of a tab as a manager finds it once its users are loaded
ManagerViewLoaded(tab) ==
    /\ Mounted(0, ClockStart)
    /\ docs = <<>>
    /\ selectedSession = Null
    /\ showSessionModal = FALSE
    /\ metrics = Null
    /\ queryRange = Null
    /\ store = AnalyticsStore
    /\ monthUser = ""
    /\ currentMonth = now
    /\ monthSessions = <<>>
    /\ calendarData = calendarDataOf(now, <<>>, now)
    /\ monthlyStats = monthlyStatsOf(<<>>, now)
    /\ isCurrentMonth = isCurrentMonthOf(now, now)
    /\ canNavigateNext = canNavigateNextOf(now, now)
    /\ user = [id |-> "m1", role |-> "manager"]
    /\ loading = FALSE
    /\ activeTab = tab
    /\ tabEffect = FALSE
    /\ usersStore = AnalyticsUsers
    /\ users = (IF tab = "timesheets" THEN AvailableUsersOf(user) ELSE <<>>)
    /\ weekLoading = FALSE
    /\ monthUsers = (IF tab = "monthly" THEN AvailableUsersOf(user) ELSE <<>>)
    /\ monthLoading = FALSE
    /\ reportUsers = <<>>
    /\ reportLoading = FALSE
    /\ selectedUsers = <<>>
    /\ dateRange = dateRangeOptions(now).last30days
    /\ reportSessions = <<>>
    /\ topPerformers = <<>>
    /\ inflight = {}
    /\ monthInflight = {}
    /\ NothingElse

InitFetch ==
    /\ \E tab \in {"timesheets", "monthly"} : ManagerViewLoaded(tab)
    /\ selectedUser = ""
    /\ sessions = <<>>
    /\ stats = statsOf(<<>>)
    /\ rowRates = <<>>

NextFetch ==
    \/ \E u \in FetchUsers \cup {""} : changeSelectedUser(u)
    \/ (currentWeek - 7 * 24 >= ClockStart - MaxPeriodsBack * 7 * 24
        /\ changeCurrentWeek(setDate(currentWeek, getDate(currentWeek) - 7)))
    \/ (weekCalculations.canNavigateNext
        /\ changeCurrentWeek(setDate(currentWeek, getDate(currentWeek) + 7)))
    \/ \E call \in inflight : fetchResolved(call)
    \/ \E u \in FetchUsers \cup {""} : monthChangeSelectedUser(u)
    \/ (MonthOrdinal(now) - MonthOrdinal(currentMonth) < MaxPeriodsBack
        /\ changeCurrentMonth(setMonth(currentMonth, getMonth(currentMonth) - 1)))
    \/ (canNavigateNext
        /\ changeCurrentMonth(setMonth(currentMonth, getMonth(currentMonth) + 1)))
    \/ \E call \in monthInflight : monthFetchResolved(call)

SpecFetch == InitFetch /\ [][NextFetch]_vars

\* The weekly view of a manager who reviews the sessions of a team member.
\* the reasons typed into the disapproval form: nothing, a blank, and a
\* reason with blanks around it
Reasons == {<<>>, <<" ">>, <<" ", "n", "o", " ">>}

InitReview ==
    /\ ManagerViewLoaded("timesheets")
    /\ selectedUser \in {"e1", "e5"}
    /\ sessions = WeeklySessionsOf(FetchCall(selectedUser, currentWeek))
    /\ stats = statsOf(sessions)
    /\ rowRates = [i \in 1..Len(sessions) |-> durationRender(sessions[i])]

NextReview ==
    \/ \E i \in 1..Len(sessions) : quickApprove(i)
    \/ \E i \in 1..Len(sessions) : handleViewSession(i)
    \/ showDisapproval
    \/ cancelDisapproval
    \/ \E value \in Reasons : setDisapprovalReason(value)
    \/ handleApprove
    \/ handleDisapprove
    \/ onClose
    \/ \E call \in inflight : updateResolved(call)
    \/ \E call \in inflight : updateRejected(call)

SpecReview == InitReview /\ [][NextReview]_vars

\* C19: in every step, a stored session whose status changes was submitted
\* and becomes approved or disapproved, so that approved and disapproved
\* are final; and the store changes only when an approve or disapprove call
\* resolves, never by a render, a fetch or a computation.
C19_StatusOnlyMovesOnFromSubmitted ==
    [][/\ \A i \in 1..Len(store) :
              store'[i].status # store[i].status =>
                  /\ store[i].status = "submitted"
                  /\ store'[i].status \in {"approved", "disapproved"}
       /\ store' # store =>
              \E call \in inflight \ inflight' : call.kind = "update"]_vars

\* C20: once no fetch is under way, the weekly and the monthly view hold
\* the sessions of the selected user in the displayed week or month, and
\* no sessions when no user is selected.
C20_SettledSessionsAreTheSelected ==
    /\ inflight = {} =>
           sessions = IF selectedUser = "" THEN <<>>
                      ELSE WeeklySessionsOf(FetchCall(selectedUser, currentWeek))
    /\ monthInflight = {} =>
           monthSessions = IF monthUser = "" THEN <<>>
                           ELSE MonthlySessionsOf(monthUser, currentMonth)

(***************************************************************************)
(* Properties of the week navigation over time                             *)
(***************************************************************************)
\* the start of the week that contains the present moment, as a local day
PresentWeekStart == SundayOnOrBefore(LocalDay(now))

\* C21: whatever Previous Week, Next Week and Current Week actions are
\* taken while the clock moves forward, the displayed week never starts
\* after the start of the week that contains the present moment, and
\* Current Week makes the displayed week the week of the present moment.
C21_DisplayedWeekIsNeverAFutureWeek ==
    /\ [](AnchorWeekStart <= PresentWeekStart)
    /\ [][goToCurrentWeek => AnchorWeekStart' = PresentWeekStart']_vars

\* Next Week has brought the view to the present week after the clock
\* moved into it: the anchor is an instant still to come, in the week
\* that has begun
C21_Witness ==
    /\ currentWeek > now
    /\ now > ClockStart
    /\ AnchorWeekStart = PresentWeekStart

(***************************************************************************)
(* Properties of the review of a session                                   *)
(***************************************************************************)
\* the managerComment of a session or of a document
CommentOf(x) == IF "managerComment" \in DOMAIN x THEN x.managerComment ELSE Missing

\* a non-blank reason is recorded
HasReason(x) ==
    \E reason \in Reasons : Trim(reason) # <<>> /\ CommentOf(x) = Str(reason)

\* the update calls that end in this step
UpdatesSettled ==
    {call \in inflight : /\ call.kind = "update"
                         /\ Abandoned({call}) \cap inflight' = {}
                         /\ call \notin inflight'}

\* C22: handleDisapprove with an empty or blank reason issues no update and
\* leaves the sessions and the form as they are; every update call for a
\* disapproval carries the entered, non-blank reason as managerComment; a
\* stored session that has just become disapproved holds such a reason, and
\* one that has just become approved holds no managerComment.
C22_DisapprovalNeedsAReason ==
    /\ [](\A call \in inflight :
              (call.kind = "update" /\ call.updates.status = "disapproved") =>
                  HasReason(call.updates))
    /\ [][/\ (handleDisapprove /\ Trim(disapprovalReason) = <<>>) =>
                 /\ inflight' = inflight
                 /\ store' = store
                 /\ sessions' = sessions
                 /\ selectedSession' = selectedSession
                 /\ modalVars' = modalVars
          /\ \A i \in 1..Len(store) :
                 store'[i] # store[i] =>
                     /\ store'[i].status = "disapproved" => HasReason(store'[i])
                     /\ store'[i].status = "approved" =>
                            CommentOf(store'[i]) \in {Null, Missing}]_vars

\* C23: the local list changes only in a step in which an update call
\* ends with its write done, and then only in the session of that call;
\* when a call ends with "Failed to update session" the list, the store
\* and the open modal stay as they are, and the modal's handler, having
\* caught the error, reports the failure instead of a success.
C23_LocalListFollowsTheWrite ==
    [][/\ sessions' # sessions =>
              \E call \in UpdatesSettled :
                  /\ \A i \in 1..Len(store) :
                         store[i].id = call.id => store'[i] = Merged(store[i], call.updates)
                  /\ \A j \in 1..Len(sessions) :
                         /\ sessions[j].id # call.id => sessions'[j] = sessions[j]
                         /\ sessions[j].id = call.id =>
                                sessions'[j] = Merged(sessions[j], call.updates)
       /\ \A call \in UpdatesSettled :
              (toasts' # <<>> /\ toasts'[1] = "Failed to update session") =>
                  /\ sessions' = sessions
                  /\ store' = store
                  /\ selectedSession' = selectedSession
                  /\ showSessionModal' = showSessionModal
                  /\ call.origin # "row" =>
                         /\ Len(toasts') = 2
                         /\ toasts'[2] \in {"Failed to approve session",
                                            "Failed to disapprove session"}]_vars

\* an approval made in the modal has failed: the modal is still open on the
\* submitted session, with its approve button enabled again
C23_Witness ==
    /\ toasts = <<"Failed to update session", "Failed to approve session">>
    /\ selectedSession # Null
    /\ showSessionModal
    /\ ~approving
    /\ \E j \in 1..Len(sessions) :
           sessions[j].id = selectedSession.id /\ sessions[j].status = "submitted"

\* C24: the modal on screen never has an approve and a disapprove request
\* under way together: of the update calls it has made, at most one is in
\* flight.
C24_OneWritePerReview ==
    /\ ~(approving /\ disapproving)
    /\ \A a, b \in inflight :
           (a.kind = "update" /\ b.kind = "update"
            /\ a.origin = "modal" /\ b.origin = "modal") => a = b

(***************************************************************************)
(* Properties of the month navigation                                      *)
(***************************************************************************)
\* C25: navigateMonth("prev") shows exactly the previous calendar month and
\* navigateMonth("next") exactly the next one, whatever day of the month
\* the anchor holds, so that no month is skipped or repeated and prev
\* followed by next shows the original month again.
C25_MonthStepsAreExact ==
    [][/\ navigateMonthPrev =>
              MonthOrdinal(currentMonth') = MonthOrdinal(currentMonth) - 1
       /\ navigateMonthNext =>
              MonthOrdinal(currentMonth') = MonthOrdinal(currentMonth) + 1]_vars

(***************************************************************************)
(* AuthProvider: the callback of onAuthStateChanged                        *)
(***************************************************************************)
\* userData.isActive !== false
IsActiveOf(data) == ~("isActive" \in DOMAIN data /\ data.isActive = FALSE)

\* the user built from the document of a uid
ProfileOf(data) ==
    [id |-> data.id, role |-> OrElse(data.role, "employee"),
     managerId |-> data.managerId, isActive |-> IsActiveOf(data)]

\* the document created for a uid that has none
NewUserDoc(uid) ==
    [id |-> uid, role |-> "employee", managerId |-> Undefined, isActive |-> TRUE]

DocsOf(uid) == SelectSeq(usersStore, LAMBDA d : d.id = uid)

\* the frame of a step of AuthProvider; the views follow the render
AuthFrame ==
    /\ UNCHANGED <<docs, tz, now, store, activeTab, modalVars, utilVars>>
    /\ ViewsRendered

\* the identity provider reports its user, after a sign-in, a restored
\* session or a sign-out: the callback starts the lookup of the profile, or
\* for no user does setUser(null) and setLoading(false)
onAuthStateChanged(firebaseUser) ==
    /\ firebaseUser # authUser
    /\ authUser' = firebaseUser
    /\ IF firebaseUser # ""
       THEN /\ authPending' = authPending \cup {firebaseUser}
            /\ UNCHANGED <<user, loading, tabEffect>>
       ELSE /\ user' = Null
            /\ loading' = FALSE
            /\ tabEffect' = (user # Null \/ tabEffect)
            /\ UNCHANGED authPending
    /\ UNCHANGED <<usersStore, toasts>>
    /\ AuthFrame

\* the callback as it would be if it dropped the result of a lookup made
\* for a user who is no longer the provider's user
profileLoaded_UnlessStale(uid) ==
    /\ uid \in authPending
    /\ authPending' = authPending \ {uid}
    /\ IF uid # authUser
       THEN UNCHANGED <<user, tabEffect, usersStore>>
       ELSE /\ user' = ProfileOf(DocsOf(uid)[1])
            /\ tabEffect' = TRUE
            /\ UNCHANGED usersStore
    /\ loading' = FALSE
    /\ UNCHANGED <<authUser, toasts>>
    /\ AuthFrame

\* getDoc of a callback resolves: setUser with the profile, or with the
\* document created for a user who has none; then setLoading(false)
profileLoaded(uid) ==
    /\ uid \in authPending
    /\ authPending' = authPending \ {uid}
    /\ IF DocsOf(uid) # <<>>
       THEN /\ user' = ProfileOf(DocsOf(uid)[1])
            /\ UNCHANGED usersStore
       ELSE /\ usersStore' = Append(usersStore, NewUserDoc(uid))
            /\ user' = NewUserDoc(uid)
    /\ tabEffect' = TRUE
    /\ loading' = FALSE
    /\ UNCHANGED <<authUser, toasts>>
    /\ AuthFrame

\* getDoc of a callback rejects: a toast, then setLoading(false)
profileFailed(uid) ==
    /\ uid \in authPending
    /\ authPending' = authPending \ {uid}
    /\ toasts' = <<"Error loading user data">>
    /\ loading' = FALSE
    /\ UNCHANGED <<authUser, user, tabEffect, usersStore>>
    /\ AuthFrame

(***************************************************************************)
(* UserManagement and EditUserModal                                        *)
(***************************************************************************)
AdminFrame ==
    /\ UNCHANGED <<sessionVars, weekVars, store, monthVars>>
    /\ UNCHANGED <<user, loading, activeTab, tabEffect>>
    /\ UNCHANGED <<listVars, analyticsVars, fetchVars, modalVars, authVars, utilVars>>

UsersShown == AppContentOf(loading, user, activeTab) = "UserManagement"

\* what fetchUsers makes of a document
ManagedUserOf(data) == Merged(data, [isActive |-> IsActiveOf(data)])

\* fetchUsers, run by the effect of the mount
fetchUsers ==
    /\ UsersShown
    /\ usersLoading
    /\ usersLoading' = FALSE
    /\ managedUsers' = [i \in 1..Len(usersStore) |-> ManagedUserOf(usersStore[i])]
    /\ UNCHANGED <<editUser, formData, userInflight, usersStore, toasts>>
    /\ AdminFrame

\* handleUpdateUser(userId, updates); origin: "toggle" when called by
\* quickToggleAccess, "modal" when called by the edit modal on screen,
\* "closed" once that modal is gone
UserUpdateCall(userId, updates, origin) ==
    [id |-> userId, updates |-> updates, origin |-> origin]

UserCallStarted(call) ==
    /\ Cardinality(userInflight) < MaxInflight
    /\ userInflight' = userInflight \cup {call}
    /\ UNCHANGED <<managedUsers, usersLoading, editUser, formData, usersStore, toasts>>
    /\ AdminFrame

\* the row's access button
quickToggleAccess(i) ==
    /\ UsersShown
    /\ editUser = Null
    /\ i \in 1..Len(managedUsers)
    /\ UserCallStarted(UserUpdateCall(managedUsers[i].id,
                                      [isActive |-> ~managedUsers[i].isActive],
                                      "toggle"))

\* handleEditUser: the edit modal opens on a row
handleEditUser(i) ==
    /\ UsersShown
    /\ editUser = Null
    /\ i \in 1..Len(managedUsers)
    /\ editUser' = managedUsers[i]
    /\ formData' = [role |-> managedUsers[i].role,
                    isActive |-> managedUsers[i].isActive # FALSE]
    /\ UNCHANGED <<managedUsers, usersLoading, userInflight, usersStore, toasts>>
    /\ AdminFrame

\* calls of an edit modal that has been closed since
EditAbandoned(calls) ==
    {IF c.origin = "modal" THEN [c EXCEPT !.origin = "closed"] ELSE c : c \in calls}

\* the edit modal's onClose
editOnClose ==
    /\ editUser # Null
    /\ editUser' = Null
    /\ formData' = Null
    /\ userInflight' = EditAbandoned(userInflight)
    /\ UNCHANGED <<managedUsers, usersLoading, usersStore, toasts>>
    /\ AdminFrame

\* toggleUserAccess of the form
toggleUserAccess ==
    /\ editUser # Null
    /\ formData' = [formData EXCEPT !.isActive = ~formData.isActive]
    /\ UNCHANGED <<managedUsers, usersLoading, editUser, userInflight, usersStore, toasts>>
    /\ AdminFrame

\* handleSubmit of the form; the button is disabled while loading
handleSubmit ==
    /\ editUser # Null
    /\ \A c \in userInflight : c.origin # "modal"
    /\ UserCallStarted(UserUpdateCall(editUser.id,
                                      [role |-> formData.role,
                                       isActive |-> formData.isActive],
                                      "modal"))

\* the document and the row of a call with its updates
UserUpdated(x, call) == IF x.id = call.id THEN Merged(x, call.updates) ELSE x

\* what the caller of handleUpdateUser does once the call has returned
CallerWentOn(call) ==
    /\ IF call.origin = "toggle"
       THEN /\ userInflight' = userInflight \ {call}
            /\ UNCHANGED <<editUser, formData>>
       ELSE /\ userInflight' = EditAbandoned(userInflight \ {call})
            /\ editUser' = Null
            /\ formData' = Null
    /\ UNCHANGED usersLoading
    /\ AdminFrame

AccessToast(call) ==
    IF call.updates.isActive THEN "User access granted" ELSE "User access revoked"

\* updateDoc resolves: the document and the row are updated
userUpdateResolved(call) ==
    /\ call \in userInflight
    /\ usersStore' = [i \in 1..Len(usersStore) |-> UserUpdated(usersStore[i], call)]
    /\ managedUsers' = [i \in 1..Len(managedUsers) |-> UserUpdated(managedUsers[i], call)]
    /\ toasts' = IF call.origin = "toggle"
                 THEN <<"User updated successfully", AccessToast(call)>>
                 ELSE <<"User updated successfully">>
    /\ CallerWentOn(call)

\* updateDoc rejects: handleUpdateUser shows its toast and returns
userUpdateRejected(call) ==
    /\ call \in userInflight
    /\ toasts' = IF call.origin = "toggle"
                 THEN <<"Failed to update user", AccessToast(call)>>
                 ELSE <<"Failed to update user">>
    /\ UNCHANGED <<usersStore, managedUsers>>
    /\ CallerWentOn(call)

\* The accounts of the identity provider: an administrator, a manager, a
\* manager whose access has been revoked, and a user who has no document.
AccessUsers ==
    <<UserDoc("a1", "admin", Undefined), UserDoc("m1", "manager", Undefined),
      Merged(UserDoc("m2", "manager", Undefined), [isActive |-> FALSE])>>

Uids == {"a1", "m1", "m2", "n1"}

MaxPending == 2

\* the application as it starts, with the users of the store
AccessStarted(signedIn, isLoading, tab) ==
    /\ Mounted(0, ClockStart)
    /\ WeeklyViewIdle
    /\ store = <<>>
    /\ monthUser = ""
    /\ currentMonth = now
    /\ monthSessions = <<>>
    /\ calendarData = <<>>
    /\ monthlyStats = Null
    /\ isCurrentMonth = TRUE
    /\ canNavigateNext = FALSE
    /\ user = signedIn
    /\ loading = isLoading
    /\ activeTab = tab
    /\ tabEffect = FALSE
    /\ usersStore = AccessUsers
    /\ users = <<>>
    /\ weekLoading = FALSE
    /\ monthUsers = <<>>
    /\ monthLoading = FALSE
    /\ reportUsers = <<>>
    /\ reportLoading = FALSE
    /\ selectedUsers = <<>>
    /\ dateRange = dateRangeOptions(now).last30days
    /\ reportSessions = <<>>
    /\ topPerformers = <<>>
    /\ inflight = {}
    /\ monthInflight = {}
    /\ ModalFresh
    /\ toasts = <<>>
    /\ authPending = {}
    /\ managedUsers = <<>>
    /\ editUser = Null
    /\ formData = Null
    /\ userInflight = {}
    /\ UtilitiesUnused

\* AuthProvider is mounted and has heard nothing of the identity provider
InitAuth ==
    /\ AccessStarted(Null, TRUE, "")
    /\ authUser = ""
    /\ usersLoading = FALSE

NextAuth ==
    \/ \E uid \in Uids :
           Cardinality(authPending) < MaxPending /\ onAuthStateChanged(uid)
    \/ onAuthStateChanged("")
    \/ \E uid \in authPending : profileLoaded(uid)
    \/ \E uid \in authPending : profileFailed(uid)
    \/ userEffect

SpecAuth == InitAuth /\ [][NextAuth]_vars

\* The administrator is signed in and the user management view is mounted.
InitAdmin ==
    /\ AccessStarted(ProfileOf(AccessUsers[1]), FALSE, "users")
    /\ authUser = "a1"
    /\ usersLoading = TRUE

NextAdmin ==
    \/ fetchUsers
    \/ \E i \in 1..Len(managedUsers) : quickToggleAccess(i)
    \/ \E i \in 1..Len(managedUsers) : handleEditUser(i)
    \/ toggleUserAccess
    \/ handleSubmit
    \/ editOnClose
    \/ \E call \in userInflight : userUpdateResolved(call)
    \/ \E call \in userInflight : userUpdateRejected(call)

SpecAdmin == InitAdmin /\ [][NextAdmin]_vars

(***************************************************************************)
(* Properties of the authentication state and of the user management       *)
(***************************************************************************)
\* C26: once the identity provider has reported a sign-out and no callback
\* is still awaiting its lookup, AuthProvider holds no user: a lookup made
\* for an earlier sign-in that completes after the sign-out does not bring
\* the signed-out user back.
C26_SignedOutStaysSignedOut ==
    (authUser = "" /\ authPending = {}) => user = Null

\* C27: the pages of the dashboard are shown only to a signed-in user whose
\* isActive is not false.
C27_RevokedUsersSeeNoDashboard ==
    AppContentOf(loading, user, activeTab) \in DashboardViews => user.isActive

\* the handleUpdateUser calls that end in this step
UserUpdatesSettled ==
    {call \in userInflight : /\ call \notin userInflight'
                             /\ EditAbandoned({call}) \cap userInflight' = {}}

\* C28: when a handleUpdateUser call ends with "Failed to update user" the
\* local list of users is unchanged, quickToggleAccess announces neither
\* that access was granted nor that it was revoked, and the edit modal that
\* made the call stays open.
C28_FailedUpdatesAreNotAnnounced ==
    [][\A call \in UserUpdatesSettled :
           (toasts' # <<>> /\ toasts'[1] = "Failed to update user") =>
               /\ managedUsers' = managedUsers
               /\ \A k \in 1..Len(toasts') :
                      toasts'[k] \notin {"User access granted", "User access revoked"}
               /\ call.origin = "modal" => editUser' = editUser]_vars

(***************************************************************************)
(* memoize                                                                 *)
(***************************************************************************)
\* the frame of a step of a memoized or of a debounced function
UtilFrame ==
    /\ UNCHANGED <<sessionVars, weekVars, store, monthVars>>
    /\ UNCHANGED <<appVars, listVars, analyticsVars, fetchVars>>
    /\ UNCHANGED <<modalVars, toasts, authVars, adminVars>>

\* JSON.stringify of a value: undefined in an array is written as null
StringifyValue(v) == IF v = "undefined" THEN "null" ELSE v

\* JSON.stringify(args), as the sequence of the texts of its elements
Stringify(args) == [i \in 1..Len(args) |-> StringifyValue(args[i])]

\* the function that is memoized
Fn(args) == [of |-> args]

\* cache.has(key) and cache.get(key)
CacheHas(key) == \E i \in 1..Len(cache) : cache[i].key = key

CacheGet(key) == cache[CHOOSE i \in 1..Len(cache) : cache[i].key = key].value

\* cache.delete(cache.keys().next().value): the entry inserted first goes
WithoutFirstKey == IF cache = <<>> THEN cache ELSE Tail(cache)

\* the keys in the order of their last use, a key having just been used
Used(key) == Append(SelectSeq(recency, LAMBDA k : k # key), key)

\* a call of the function returned by memoize(fn, maxSize)
memoized(args) ==
    /\ IF CacheHas(Stringify(args))
       THEN /\ lastResult' = CacheGet(Stringify(args))
            /\ fnCalled' = FALSE
            /\ UNCHANGED cache
       ELSE /\ lastResult' = Fn(args)
            /\ fnCalled' = TRUE
            /\ cache' = Append(IF Len(cache) >= maxSize THEN WithoutFirstKey ELSE cache,
                               [key |-> Stringify(args), value |-> Fn(args)])
    /\ recency' = Used(Stringify(args))
    /\ UNCHANGED <<maxSize, debounceVars>>
    /\ UtilFrame

\* the arguments the memoized function is called with
ArgLists == {<<"1">>, <<"2">>, <<"3">>, <<"null">>, <<"undefined">>}

MaxCacheSize == 2

\* the state outside the memoized and the debounced function
UtilitiesOnly ==
    /\ Mounted(0, ClockStart)
    /\ WeeklyViewIdle
    /\ ManagerSignedIn
    /\ MonthlyViewUnmounted
    /\ AppIdle

\* memoize(fn, maxSize) has just returned
InitMemo ==
    /\ UtilitiesOnly
    /\ DebounceUnused
    /\ cache = <<>>
    /\ maxSize \in 1..MaxCacheSize
    /\ fnCalled = FALSE
    /\ lastResult = Null
    /\ recency = <<>>

NextMemo == \E args \in ArgLists : memoized(args)

SpecMemo == InitMemo /\ [][NextMemo]_vars

\* the keys of the cache
CacheKeys == {cache[i].key : i \in 1..Len(cache)}

\* the position of a key in the order of last use: the larger, the later
LastUseOf(key) == CHOOSE i \in 1..Len(recency) : recency[i] = key

\* C29: the cache never holds more than maxSize entries; a call whose key
\* is cached returns the stored result and does not call fn; and a call
\* that displaces an entry displaces the least recently used one, a hit
\* counting as a use.
C29_CacheIsBoundedAndEvictsLeastRecent ==
    /\ [](Len(cache) <= maxSize)
    /\ [][\A args \in ArgLists :
              memoized(args) =>
                  /\ CacheHas(Stringify(args)) =>
                         /\ ~fnCalled'
                         /\ lastResult' = CacheGet(Stringify(args))
                         /\ cache' = cache
                  /\ \A gone \in CacheKeys :
                         (~\E i \in 1..Len(cache') : cache'[i].key = gone) =>
                             \A kept \in CacheKeys :
                                 LastUseOf(gone) <= LastUseOf(kept)]_vars

(***************************************************************************)
(* debounce                                                                *)
(* Every call of the debounced function is made by a task of its own, and  *)
(* a timer that is due runs before the next task and before time passes.   *)
(***************************************************************************)
TimerDue == timeout # Null /\ timeout.due <= timerClock

\* a debounce that leaves a pending timer running to its time
debounced_NotRestarting(args) ==
    /\ ~TimerDue
    /\ timeout' = [args |-> args,
                   due  |-> IF timeout # Null THEN timeout.due ELSE timerClock + wait]
    /\ debounceCalls' = Append(debounceCalls, [args |-> args, at |-> timerClock])
    /\ UNCHANGED <<wait, timerClock, invoked, memoVars>>
    /\ UtilFrame

\* a call of the function returned by debounce(func, wait): clearTimeout,
\* then setTimeout(() => func(...args), wait)
debounced(args) ==
    /\ ~TimerDue
    /\ timeout' = [args |-> args, due |-> timerClock + wait]
    /\ debounceCalls' = Append(debounceCalls, [args |-> args, at |-> timerClock])
    /\ UNCHANGED <<wait, timerClock, invoked, memoVars>>
    /\ UtilFrame

\* the timer runs: func(...args)
timerFired ==
    /\ TimerDue
    /\ invoked' = Append(invoked, [args |-> timeout.args, at |-> timerClock])
    /\ timeout' = Null
    /\ UNCHANGED <<wait, timerClock, debounceCalls, memoVars>>
    /\ UtilFrame

\* a unit of time passes
timePassed ==
    /\ ~TimerDue
    /\ timerClock' = timerClock + 1
    /\ UNCHANGED <<timeout, wait, debounceCalls, invoked, memoVars>>
    /\ UtilFrame

MaxWait == 2

MaxTime == 6

MaxCalls == 4

DebounceArgs == {"a", "b"}

\* debounce(func, wait) has just returned
InitDebounce ==
    /\ UtilitiesOnly
    /\ MemoUnused
    /\ timeout = Null
    /\ wait \in 0..MaxWait
    /\ timerClock = 0
    /\ debounceCalls = <<>>
    /\ invoked = <<>>

NextDebounce ==
    \/ \E args \in DebounceArgs :
           Len(debounceCalls) < MaxCalls /\ debounced(args)
    \/ timerFired
    \/ (timerClock < MaxTime /\ timePassed)

SpecDebounce == InitDebounce /\ [][NextDebounce]_vars

\* the calls that end a burst whose timer has run: a call followed by no
\* call within wait, the last call counting once its timer is gone
BurstEnd(i) ==
    IF i < Len(debounceCalls)
    THEN debounceCalls[i + 1].at - debounceCalls[i].at >= wait
    ELSE timeout = Null

BurstEnds == SelectSeq([i \in 1..Len(debounceCalls) |-> i], BurstEnd)

====
